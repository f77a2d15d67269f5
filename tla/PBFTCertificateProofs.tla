------------------------- MODULE PBFTCertificateProofs -------------------------
(***************************************************************************)
(* Certificates.  Nobody commits on its own authority.  That 2f nodes have *)
(* prepared what a commit names does not follow from the commits alone: a  *)
(* node counts the votes in its slot, so the invariant says of every slot  *)
(* that its votes were sent and its request was proposed, and the same of  *)
(* every packet and heartbeat on its way to a slot.  Nothing takes a       *)
(* message back, so a slot stays backed until a checkpoint clears it.      *)
(*                                                                         *)
(* Nor does a node trust a snapshot on one node's word: it stores one for  *)
(* which it has counted 2f+1 votes, or which a heartbeat has brought, so   *)
(* the invariant says of pending votes and of proofs on their way that     *)
(* enough nodes have signed.  It also says that no vote is kept for a      *)
(* number up to the last checkpoint, which handleCheckpointNoValidation    *)
(* ensures and checkpointed() restores, and that a main loop that runs has *)
(* reached the checkpoint: one that waits for the KeyNode stores the       *)
(* checkpoint first.                                                       *)
(***************************************************************************)
EXTENDS PBFTTypeProofs, FiniteSetTheorems

ProposedAs(id, digest, proposed) == \E pp \in proposed : pp.number = id /\ pp.digest = digest

\* A slot holds only votes that were sent, and a request only if one was proposed
\* with the digest it keeps.
Backed(id, slot, proposed, prepares, commits) ==
    /\ slot.request # Nil => ProposedAs(id, slot.requestDigest, proposed)
    /\ slot.prepares \subseteq Senders(prepares, id)
    /\ slot.commits \subseteq Senders(commits, id)
    /\ slot.committed => Cardinality(slot.commits) >= CommitQuorum

LogBacked ==
    \A n \in Nodes, id \in SlotIds :
        Backed(id, log[n][id], Proposed, sentPrepares, sentCommits)

PacketBacked(packet, prePrepares, prepares, commits) ==
    /\ packet.kind = "PrePrepare" => packet.message \in prePrepares
    /\ packet.kind = "Prepare" => packet.message \in prepares
    /\ packet.kind = "Commit" => packet.message \in commits

PacketsBacked ==
    \A packet \in inFlight : PacketBacked(packet, sentPrePrepares, sentPrepares, sentCommits)

RpcBacked(rpc, proposed) ==
    /\ rpc.kind = "NewView" => rpc.body.prePrepares \subseteq proposed
    /\ rpc.kind = "PrePrepare" /\ rpc.body.number.seqNumber # 0 =>
          ProposedAs(rpc.body.number, rpc.body.digest, proposed)

RpcsBacked ==
    /\ \A n \in Nodes : newView[n].prePrepares \subseteq Proposed
    /\ \A rpc \in rpcs : RpcBacked(rpc, Proposed)

CertificateInv == TypeOK /\ LogBacked /\ PacketsBacked /\ RpcsBacked /\ CommitCertificate

-----------------------------------------------------------------------------
\* More messages have more senders.
LEMMA SendersGrow ==
    ASSUME NEW id, NEW M, NEW M2, M \subseteq M2
    PROVE  Senders(M, id) \subseteq Senders(M2, id)
BY DEF Senders

\* The sender of a message is among the senders of its slot.
LEMMA SenderCounted ==
    ASSUME NEW M, NEW m \in M
    PROVE  m.node \in Senders(M, m.number)
BY DEF Senders

\* The senders are nodes, so a set of them can be counted.
LEMMA SendersFinite ==
    ASSUME NEW id, NEW M, \A m \in M : m.node \in Nodes
    PROVE  /\ IsFiniteSet(Senders(M, id)) /\ Cardinality(Senders(M, id)) \in Nat
           /\ \A S : S \subseteq Senders(M, id) =>
                 IsFiniteSet(S) /\ Cardinality(S) <= Cardinality(Senders(M, id))
<1>1. Senders(M, id) \subseteq Nodes
    BY DEF Senders
<1>2. IsFiniteSet(Senders(M, id))
    BY <1>1, FS_Subset, NodesAssumption
<1>. QED
    BY <1>2, FS_Subset, FS_CardinalityType

\* A slot stays backed as messages are sent: none is ever unsent.
LEMMA BackedGrows ==
    ASSUME NEW id, NEW slot, NEW P, NEW P2, NEW R, NEW R2, NEW C, NEW C2,
           P \subseteq P2, R \subseteq R2, C \subseteq C2, Backed(id, slot, P, R, C)
    PROVE  Backed(id, slot, P2, R2, C2)
BY SendersGrow DEF Backed, ProposedAs

\* A slot nobody has touched is backed.
LEMMA EmptyBacked ==
    ASSUME NEW id, NEW P, NEW R, NEW C
    PROVE  Backed(id, EmptySlot, P, R, C)
BY DEF Backed, EmptySlot

\* The quorums isPrepared and isCommitted ask for are numbers.
LEMMA QuorumType == PrepareQuorum \in Int /\ CommitQuorum \in Int
<1>1. Cardinality(Nodes) \in Nat
    BY NodesAssumption, FS_CardinalityType
<1>. QED
    BY <1>1 DEF PrepareQuorum, CommitQuorum, NPeers

\* What a step must do for the invariant to survive it.
LEMMA CertificateStep ==
    ASSUME CertificateInv, TypeOK',
           sentPrePrepares \subseteq sentPrePrepares', sentPrepares \subseteq sentPrepares',
           sentCommits \subseteq sentCommits', sentNewViews \subseteq sentNewViews',
           \A n \in Nodes, id \in SlotIds :
               \/ log'[n][id] = log[n][id]
               \/ Backed(id, log'[n][id], Proposed', sentPrepares', sentCommits'),
           \A packet \in inFlight' :
               \/ packet \in inFlight
               \/ PacketBacked(packet, sentPrePrepares', sentPrepares', sentCommits'),
           \A n \in Nodes : \/ newView'[n] = newView[n]
                            \/ newView'[n].prePrepares \subseteq Proposed',
           \A rpc \in rpcs' : rpc \in rpcs \/ RpcBacked(rpc, Proposed'),
           \A c \in sentCommits' \ sentCommits :
               /\ \E pp \in Proposed' : pp.number = c.number
               /\ Cardinality(Senders(sentPrepares', c.number)) >= PrepareQuorum
    PROVE  CertificateInv'
<1>1. Proposed \subseteq Proposed'
    BY DEF Proposed
<1>2. LogBacked'
    <2>1. SUFFICES ASSUME NEW n \in Nodes, NEW id \in SlotIds
                   PROVE  Backed(id, log'[n][id], Proposed', sentPrepares', sentCommits')
        BY DEF LogBacked
    <2>2. Backed(id, log[n][id], Proposed', sentPrepares', sentCommits')
        BY <1>1, BackedGrows DEF CertificateInv, LogBacked
    <2>. QED
        BY <2>2
<1>3. PacketsBacked'
    BY DEF PacketsBacked, PacketBacked, CertificateInv
<1>4. RpcsBacked'
    BY <1>1 DEF RpcsBacked, RpcBacked, ProposedAs, CertificateInv
<1>5. CommitCertificate'
    <2>1. SUFFICES ASSUME NEW c \in sentCommits'
                   PROVE  /\ \E pp \in Proposed' : pp.number = c.number
                          /\ Cardinality(Senders(sentPrepares', c.number)) >= PrepareQuorum
        BY DEF CommitCertificate, Preparers
    <2>2. CASE c \in sentCommits
        <3>1. /\ \E pp \in Proposed : pp.number = c.number
              /\ Cardinality(Senders(sentPrepares, c.number)) >= PrepareQuorum
            BY <2>2 DEF CertificateInv, CommitCertificate, Preparers
        <3>2. Senders(sentPrepares, c.number) \subseteq Senders(sentPrepares', c.number)
            BY SendersGrow
        <3>3. \A m \in sentPrepares' : m.node \in Nodes
            BY DEF TypeOK, SentType, Prepare
        <3>4. /\ Cardinality(Senders(sentPrepares, c.number)) \in Nat
              /\ Cardinality(Senders(sentPrepares', c.number)) \in Nat
              /\ Cardinality(Senders(sentPrepares, c.number))
                    <= Cardinality(Senders(sentPrepares', c.number))
            BY <3>2, <3>3, SendersFinite
        <3>. QED
            BY <1>1, <3>1, <3>4, QuorumType
    <2>3. CASE c \notin sentCommits
        BY <2>3
    <2>. QED
        BY <2>2, <2>3
<1>. QED
    BY <1>2, <1>3, <1>4, <1>5 DEF CertificateInv

-----------------------------------------------------------------------------
\* Steps that send nothing of the normal case and clear slots at most.
LEMMA QuietStep ==
    ASSUME CertificateInv, TypeOK',
           UNCHANGED <<sentPrePrepares, sentPrepares, sentCommits, sentNewViews, newView>>,
           \A n \in Nodes, id \in SlotIds :
               log'[n][id] = log[n][id] \/ log'[n][id] = EmptySlot,
           \A packet \in inFlight' :
               \/ packet \in inFlight
               \/ packet.kind \notin {"PrePrepare", "Prepare", "Commit"}
               \/ \E old \in inFlight : packet = [old EXCEPT !.accepted = TRUE],
           \A rpc \in rpcs' : rpc \in rpcs \/ RpcBacked(rpc, Proposed)
    PROVE  CertificateInv'
<1>1. Proposed' = Proposed
    BY DEF Proposed
<1>2. ASSUME NEW old \in inFlight
      PROVE  PacketBacked([old EXCEPT !.accepted = TRUE],
                          sentPrePrepares, sentPrepares, sentCommits)
    <2>1. PacketBacked(old, sentPrePrepares, sentPrepares, sentCommits)
        BY DEF CertificateInv, PacketsBacked
    <2>2. old \in Packet
        BY DEF CertificateInv, TypeOK
    <2>. QED
        BY <2>1, <2>2 DEF PacketBacked, Packet, PacketOf
<1>3. \A packet \in inFlight' :
         \/ packet \in inFlight
         \/ PacketBacked(packet, sentPrePrepares', sentPrepares', sentCommits')
    BY <1>2 DEF PacketBacked
<1>4. \A n \in Nodes, id \in SlotIds :
         \/ log'[n][id] = log[n][id]
         \/ Backed(id, log'[n][id], Proposed', sentPrepares', sentCommits')
    BY EmptyBacked
<1>. QED
    BY <1>1, <1>3, <1>4, CertificateStep

\* broadcast() sends packets of one kind that carry one message.
LEMMA BroadcastKind ==
    ASSUME NEW kind, NEW n, NEW message
    PROVE  \A packet \in Broadcast(kind, n, message) :
               packet.kind = kind /\ packet.message = message
BY DEF Broadcast

\* A vote for a checkpoint clears slots, and does nothing else to the log.
LEMMA FlushedLog ==
    ASSUME TypeOK, NEW n \in Nodes, NEW message, NEW queue,
           handleCheckpointNoValidation(n, message, queue)
    PROVE  \A p \in Nodes, id \in SlotIds : log'[p][id] = log[p][id] \/ log'[p][id] = EmptySlot
BY DEF handleCheckpointNoValidation, Checkpointed, TypeOK, LedgerType

\* handleCheckpoint preserves the invariant.
LEMMA handleCheckpointCertificate ==
    ASSUME CertificateInv, NEW packet \in inFlight, handleCheckpoint(packet)
    PROVE  CertificateInv'
<1>1. TypeOK /\ TypeOK' /\ packet.to \in Nodes
    BY handleCheckpointType, PacketType DEF CertificateInv, TypeOK
<1>2. \A n \in Nodes, id \in SlotIds : log'[n][id] = log[n][id] \/ log'[n][id] = EmptySlot
    BY <1>1, FlushedLog DEF handleCheckpoint
<1>. QED
    BY <1>1, <1>2, QuietStep DEF handleCheckpoint, checkpointFrame, normalMessages,
        changeMessageVars, leaderVars

\* handleRecvSnapshot preserves the invariant.
LEMMA handleRecvSnapshotCertificate ==
    ASSUME CertificateInv, NEW n \in Nodes, handleRecvSnapshot(n)
    PROVE  CertificateInv'
<1>1. TypeOK /\ TypeOK'
    BY handleRecvSnapshotType DEF CertificateInv
<1>2. \A p \in Nodes, id \in SlotIds : log'[p][id] = log[p][id] \/ log'[p][id] = EmptySlot
    BY <1>1, FlushedLog DEF handleRecvSnapshot
<1>3. \A packet \in inFlight' : packet \in inFlight \/ packet.kind = "Checkpoint"
    BY BroadcastKind DEF handleRecvSnapshot
<1>. QED
    BY <1>1, <1>2, <1>3, QuietStep DEF handleRecvSnapshot, checkpointFrame, normalMessages,
        changeMessageVars, leaderVars

\* The debug switch preserves the invariant: accepted packets carry what they carried.
LEMMA DebugCertificate ==
    ASSUME CertificateInv, NEW n \in Nodes, DebugDown(n) \/ DebugUp(n)
    PROVE  CertificateInv'
<1>1. TypeOK'
    BY DebugType DEF CertificateInv
<1>2. \A packet \in inFlight' :
         packet \in inFlight \/ \E old \in inFlight : packet = [old EXCEPT !.accepted = TRUE]
    BY DEF DebugDown, DebugUp
<1>. QED
    BY <1>1, <1>2, QuietStep DEF DebugDown, DebugUp, debugFrame, normalFrame, ledgerVars,
        normalMessages, leaderVars

\* The backup's timer preserves the invariant.
LEMMA TimeoutCertificate ==
    ASSUME CertificateInv, NEW n \in Nodes, Timeout(n)
    PROVE  CertificateInv'
<1>1. TypeOK'
    BY TimeoutType DEF CertificateInv
<1>2. \A packet \in inFlight' : packet \in inFlight \/ packet.kind = "ViewChange"
    BY BroadcastKind DEF Timeout, startViewChange
<1>. QED
    BY <1>1, <1>2, QuietStep DEF Timeout, ledgerVars, normalMessages, leaderVars

\* An RPC that arrives, returns or times out preserves the invariant.
LEMMA RpcMovesCertificate ==
    ASSUME CertificateInv, NEW rpc \in rpcs,
           RpcArrives(rpc) \/ RpcReturns(rpc) \/ RpcTimesOut(rpc)
    PROVE  CertificateInv'
<1>1. TypeOK' /\ rpc \in Rpc /\ RpcBacked(rpc, Proposed)
    BY RpcMovesType DEF CertificateInv, TypeOK, RpcsBacked
<1>2. /\ \A s : RpcBacked([rpc EXCEPT !.stage = "arrived", !.seq = s], Proposed)
      /\ RpcBacked([rpc EXCEPT !.stage = "orphan"], Proposed)
    BY <1>1 DEF RpcBacked, Rpc, RpcOf
<1>3. \A r \in rpcs' : r \in rpcs \/ RpcBacked(r, Proposed)
    BY <1>2 DEF RpcArrives, RpcReturns, RpcTimesOut
<1>. QED
    BY <1>1, <1>3, QuietStep DEF RpcArrives, RpcReturns, RpcTimesOut, rpcFrame, ledgerVars,
        normalMessages, changeMessageVars

\* The ticker preserves the invariant: what it sends again was proposed in that slot.
LEMMA SendHeartbeatCertificate ==
    ASSUME CertificateInv, NEW n \in Nodes, SendHeartbeat(n)
    PROVE  CertificateInv'
<1>. DEFINE unsafe == {p \in Peers(n) : HeartbeatPanics(n, p)}
<1>1. TypeOK'
    BY SendHeartbeatType DEF CertificateInv
<1>2. PICK visited \in SUBSET (Linked("Heartbeat", n) \ unsafe) :
         rpcs' = rpcs \cup {HeartbeatRpc(n, p) : p \in visited}
    BY DEF SendHeartbeat
<1>3. \A p \in visited : p \in Peers(n)
    BY NodesAssumption DEF Linked, Peers, MessageKinds
<1>4. ASSUME NEW p \in visited
      PROVE  RpcBacked(HeartbeatRpc(n, p), Proposed)
    <2>1. CASE HeartbeatRpc(n, p) = StartRpc("NewView", n, p, newView[n])
        BY <2>1 DEF StartRpc, RpcBacked, CertificateInv, RpcsBacked
    <2>2. CASE HeartbeatRpc(n, p) = StartRpc("PrePrepare", n, p, Heartbeat(n))
        BY <2>2 DEF StartRpc, RpcBacked, Heartbeat, SlotId
    <2>3. CASE HeartbeatRpc(n, p) = StartRpc("CheckpointProof", n, p, lastCheckpoint[n])
        BY <2>3 DEF StartRpc, RpcBacked
    <2>4. CASE Resends(n, p) /\ HeartbeatRpc(n, p) = StartRpc("PrePrepare", n, p, Resent(n, p))
        <3>1. ~HeartbeatPanics(n, p)
            BY <1>3
        <3>2. ResendSlot(n, p) \in SlotIds /\ log[n][ResendSlot(n, p)].request # Nil
            BY <2>4, <3>1 DEF HeartbeatPanics
        <3>3. ProposedAs(ResendSlot(n, p), Resent(n, p).digest, Proposed)
            BY <3>2 DEF CertificateInv, LogBacked, Backed, Resent, ResentAs
        <3>. QED
            BY <2>4, <3>3 DEF StartRpc, RpcBacked, Resent, ResentAs
    <2>. QED
        BY <2>1, <2>2, <2>3, <2>4 DEF HeartbeatRpc
<1>5. \A rpc \in rpcs' : rpc \in rpcs \/ RpcBacked(rpc, Proposed)
    BY <1>2, <1>4
<1>. QED
    BY <1>1, <1>5, QuietStep DEF SendHeartbeat, ledgerVars, normalMessages, changeMessageVars,
        leaderVars

-----------------------------------------------------------------------------
\* An update of one slot touches no other.
LEMMA OneSlotUpdated ==
    ASSUME TypeOK, NEW n \in Nodes, NEW id \in SlotIds, NEW slot,
           log' = [log EXCEPT ![n][id] = slot]
    PROVE  /\ log'[n][id] = slot
           /\ \A p \in Nodes, i \in SlotIds :
                 (p # n \/ i # id) => log'[p][i] = log[p][i]
BY DEF TypeOK, LedgerType

\* handleClientRequest preserves the invariant: the primary's slot holds what it proposes.
LEMMA handleClientRequestCertificate ==
    ASSUME CertificateInv, NEW n \in Nodes, NEW r \in Requests, NEW done,
           handleClientRequest(n, r, done)
    PROVE  CertificateInv'
<1>1. TypeOK /\ TypeOK'
    BY handleClientRequestType DEF CertificateInv
<1>2. CASE PrimaryProposes(n, r, done)
    <2>. DEFINE id == SlotId(viewNumber[n], NextNumber(n))
                pp == [number |-> id, digest |-> r, request |-> r, signer |-> n]
    <2>1. /\ log' = [log EXCEPT ![n][id] = ProposedSlot(r, r)]
          /\ sentPrePrepares' = sentPrePrepares \cup {pp}
          /\ inFlight' = (inFlight \ done) \cup Broadcast("PrePrepare", n, pp)
        BY <1>2 DEF PrimaryProposes
    <2>2. id \in SlotIds
        BY <1>1, <1>2, BoundsAssumption, SlotIdType
            DEF PrimaryProposes, NextNumber, TypeOK, LedgerType
    <2>3. pp.number = id /\ pp.digest = r /\ pp \in Proposed'
        BY <2>1 DEF Proposed
    <2>. HIDE DEF id, pp
    <2>4. \A p \in Nodes, i \in SlotIds :
             \/ log'[p][i] = log[p][i]
             \/ Backed(i, log'[p][i], Proposed', sentPrepares', sentCommits')
        <3>1. Backed(id, ProposedSlot(r, r), Proposed', sentPrepares', sentCommits')
            BY <2>3 DEF Backed, ProposedSlot, EmptySlot, ProposedAs
        <3>. QED
            BY <1>1, <2>1, <2>2, <3>1, OneSlotUpdated
    <2>5. \A packet \in inFlight' :
             \/ packet \in inFlight
             \/ PacketBacked(packet, sentPrePrepares', sentPrepares', sentCommits')
        BY <2>1, BroadcastKind DEF PacketBacked
    <2>. QED
        BY <1>1, <2>1, <2>4, <2>5, CertificateStep
            DEF handleClientRequest, normalFrame, leaderVars, keyVars
<1>3. CASE BackupForwards(n, r, done)
    <2>1. \A packet \in inFlight' : packet \in inFlight \/ packet.kind = "ClientRequest"
        BY <1>3, BroadcastKind DEF BackupForwards
    <2>. QED
        BY <1>1, <1>3, <2>1, QuietStep
            DEF BackupForwards, handleClientRequest, normalFrame, leaderVars
<1>. QED
    BY <1>2, <1>3 DEF handleClientRequest

\* A slot that accepts what was proposed for it, and prepares it, stays backed.
LEMMA AcceptedBacked ==
    ASSUME NEW n, NEW id, NEW slot, NEW r, NEW d, NEW P, NEW P2, NEW R, NEW R2, NEW C,
           Backed(id, slot, P, R, C), P \subseteq P2, R \subseteq R2,
           ProposedAs(id, d, P2), n \in Senders(R2, id), slot \in Slot
    PROVE  Backed(id, AcceptedSlot(n, slot, r, d), P2, R2, C)
<1>1. Backed(id, slot, P2, R2, C)
    BY BackedGrows
<1>. QED
    BY <1>1 DEF Backed, AcceptedSlot, Slot

\* handlePrePrepare preserves the invariant, given a pre-prepare somebody proposed.
LEMMA handlePrePrepareCertificate ==
    ASSUME CertificateInv, NEW n \in Nodes, NEW pp \in PrePrepare, NEW done,
           handlePrePrepare(n, pp, done), TypeOK',
           pp.number.seqNumber # 0 => ProposedAs(pp.number, pp.digest, Proposed),
           \A rpc \in rpcs' : rpc \in rpcs \/ RpcBacked(rpc, Proposed)
    PROVE  CertificateInv'
<1>1. TypeOK /\ pp.number \in SlotIds
    BY DEF CertificateInv, PrePrepare
<1>2. CASE UNCHANGED <<log, issuedSequenceNumber, sentPrepares>> /\ inFlight' = inFlight \ done
    BY <1>2, QuietStep DEF handlePrePrepare, normalFrame, leaderVars
<1>3. CASE /\ Accepts(n, viewNumber[n], pp)
           /\ log' = [log EXCEPT ![n][pp.number] = AcceptedSlot(n, @, pp.request, pp.digest)]
           /\ sentPrepares' = sentPrepares \cup {PrepareFor(n, pp)}
           /\ inFlight' = (inFlight \ done) \cup Broadcast("Prepare", n, PrepareFor(n, pp))
    <2>. DEFINE id == pp.number
                slot == AcceptedSlot(n, log[n][id], pp.request, pp.digest)
    <2>1. /\ Proposed' = Proposed
          /\ UNCHANGED <<sentPrePrepares, sentCommits, sentNewViews, newView>>
        BY DEF Proposed, handlePrePrepare, normalFrame, leaderVars
    <2>2. ProposedAs(id, pp.digest, Proposed)
        <3>1. lastCheckpoint[n].number.seqNumber \in 0..MaxSeq /\ id.seqNumber \in 0..MaxSeq
            BY <1>1 DEF TypeOK, CheckpointType, CheckpointProof, SlotIds
        <3>2. id.seqNumber > lastCheckpoint[n].number.seqNumber
            BY <1>3 DEF Accepts, WithinWaterMarks
        <3>. QED
            BY <3>1, <3>2, BoundsAssumption
    <2>3. n \in Senders(sentPrepares', id)
        BY <1>3, SenderCounted DEF PrepareFor
    <2>4. Backed(id, slot, Proposed', sentPrepares', sentCommits')
        <3>1. Backed(id, log[n][id], Proposed, sentPrepares, sentCommits) /\ log[n][id] \in Slot
            BY <1>1, SlotOfType DEF CertificateInv, LogBacked
        <3>. HIDE DEF id
        <3>. QED
            BY <1>3, <2>1, <2>2, <2>3, <3>1, AcceptedBacked
    <2>5. \A p \in Nodes, i \in SlotIds :
             \/ log'[p][i] = log[p][i]
             \/ Backed(i, log'[p][i], Proposed', sentPrepares', sentCommits')
        <3>1. log' = [log EXCEPT ![n][id] = slot]
            BY <1>3
        <3>. HIDE DEF id, slot
        <3>. QED
            BY <1>1, <2>4, <3>1, OneSlotUpdated DEF id
    <2>6. \A packet \in inFlight' :
             \/ packet \in inFlight
             \/ PacketBacked(packet, sentPrePrepares', sentPrepares', sentCommits')
        BY <1>3, BroadcastKind DEF PacketBacked
    <2>. QED
        BY <1>3, <2>1, <2>5, <2>6, CertificateStep
<1>. QED
    BY <1>2, <1>3 DEF handlePrePrepare

\* A pre-prepare that comes in a broadcast preserves the invariant.
LEMMA PrePrepareReceivedCertificate ==
    ASSUME CertificateInv, NEW packet \in inFlight, PrePrepareReceived(packet)
    PROVE  CertificateInv'
<1>1. TypeOK' /\ packet.to \in Nodes /\ packet.message \in PrePrepare
    BY PrePrepareReceivedType, PacketType DEF CertificateInv, TypeOK, PrePrepareReceived, Delivered
<1>2. packet.message \in Proposed
    BY DEF CertificateInv, PacketsBacked, PacketBacked, PrePrepareReceived, Delivered, Proposed
<1>. QED
    BY <1>1, <1>2, handlePrePrepareCertificate DEF PrePrepareReceived, ProposedAs

\* One more commit in a slot.
LEMMA CommitCounted ==
    ASSUME NEW id, NEW slot \in Slot, NEW n \in Nodes, NEW P, NEW R, NEW C,
           Backed(id, slot, P, R, C), n \in Senders(C, id)
    PROVE  Backed(id, CountCommit(slot, n), P, R, C)
<1>1. /\ CountCommit(slot, n).request = slot.request
      /\ CountCommit(slot, n).requestDigest = slot.requestDigest
      /\ CountCommit(slot, n).prepares = slot.prepares
      /\ CountCommit(slot, n).commits = slot.commits \cup {n}
      /\ CountCommit(slot, n).committed = slot.committed
    BY DEF CountCommit, Slot
<1>2. /\ Cardinality(slot.commits) \in Nat /\ Cardinality(slot.commits \cup {n}) \in Nat
      /\ Cardinality(slot.commits) <= Cardinality(slot.commits \cup {n})
    <2>1. slot.commits \cup {n} \subseteq Nodes
        BY DEF Slot
    <2>2. IsFiniteSet(slot.commits \cup {n})
        BY <2>1, FS_Subset, NodesAssumption
    <2>. QED
        BY <2>2, FS_Subset, FS_CardinalityType
<1>3. slot.committed => Cardinality(slot.commits \cup {n}) >= CommitQuorum
    BY <1>2, QuorumType DEF Backed
<1>. QED
    BY <1>1, <1>3 DEF Backed

\* A slot stays backed when a prepare that was sent is counted.
LEMMA PrepareCounted ==
    ASSUME NEW id, NEW slot \in Slot, NEW m \in Nodes, NEW P, NEW R, NEW C,
           Backed(id, slot, P, R, C), m \in Senders(R, id)
    PROVE  /\ CountPrepare(slot, m) \in Slot
           /\ Backed(id, CountPrepare(slot, m), P, R, C)
<1>1. /\ CountPrepare(slot, m).request = slot.request
      /\ CountPrepare(slot, m).requestDigest = slot.requestDigest
      /\ CountPrepare(slot, m).prepares = slot.prepares \cup {m}
      /\ CountPrepare(slot, m).commits = slot.commits
      /\ CountPrepare(slot, m).committed = slot.committed
    BY DEF CountPrepare, Slot
<1>2. CountPrepare(slot, m) \in Slot
    BY DEF CountPrepare, Slot
<1>3. CountPrepare(slot, m).prepares \subseteq Senders(R, id)
    BY <1>1 DEF Backed
<1>. QED
    BY <1>1, <1>2, <1>3 DEF Backed

\* What isPrepared holds of was proposed, and 2f nodes have sent a prepare for it.
LEMMA PreparedSlot ==
    ASSUME NEW id, NEW slot \in Slot, NEW P, NEW R, NEW C, Backed(id, slot, P, R, C),
           IsPrepared(slot), \A m \in R : m.node \in Nodes
    PROVE  /\ ProposedAs(id, slot.requestDigest, P)
           /\ Cardinality(Senders(R, id)) >= PrepareQuorum
<1>1. slot.request # Nil /\ Cardinality(slot.prepares) >= PrepareQuorum
    BY DEF IsPrepared, IsProposed
<1>2. slot.prepares \subseteq Senders(R, id)
    BY DEF Backed
<1>3. /\ Cardinality(slot.prepares) <= Cardinality(Senders(R, id))
      /\ Cardinality(slot.prepares) \in Nat /\ Cardinality(Senders(R, id)) \in Nat
    BY <1>2, SendersFinite, FS_CardinalityType
<1>4. Cardinality(Senders(R, id)) >= PrepareQuorum
    BY <1>1, <1>3, QuorumType
<1>. QED
    BY <1>1, <1>4 DEF Backed

\* handlePrepare preserves the invariant: the node commits only a slot isPrepared holds of.
LEMMA handlePrepareCertificate ==
    ASSUME CertificateInv, NEW packet \in inFlight, handlePrepare(packet)
    PROVE  CertificateInv'
<1>. DEFINE n == packet.to
            message == packet.message
            id == message.number
            slot == CountPrepare(log[n][id], message.node)
            commit == [number |-> id, digest |-> message.digest, node |-> n]
<1>1. TypeOK /\ TypeOK' /\ n \in Nodes /\ id \in SlotIds /\ message \in sentPrepares
    BY handlePrepareType, PacketType
        DEF CertificateInv, TypeOK, handlePrepare, Delivered, PacketsBacked, PacketBacked, Prepare
<1>2. /\ UNCHANGED <<sentPrePrepares, sentPrepares, sentNewViews, newView, rpcs>>
      /\ Proposed' = Proposed
    BY DEF handlePrepare, normalFrame, leaderVars, Proposed
<1>3. log[n][id] \in Slot /\ Backed(id, log[n][id], Proposed, sentPrepares, sentCommits)
    BY <1>1, SlotOfType DEF CertificateInv, LogBacked
<1>4. message.node \in Senders(sentPrepares, id)
    BY <1>1, SenderCounted
<1>5. Backed(id, slot, Proposed, sentPrepares, sentCommits) /\ slot \in Slot
    <2>1. message.node \in Nodes
        BY <1>1 DEF TypeOK, SentType, Prepare
    <2>. HIDE DEF n, id, message
    <2>. QED
        BY <1>3, <1>4, <2>1, PrepareCounted
<1>6. CASE /\ IsPrepared(slot)
           /\ log' = [log EXCEPT ![n][id] = CountCommit(slot, n)]
           /\ sentCommits' = sentCommits \cup {commit}
           /\ inFlight' = (inFlight \ {packet}) \cup Broadcast("Commit", n, commit)
    <2>1. n \in Senders(sentCommits', id)
        BY <1>6, SenderCounted
    <2>2. Backed(id, slot, Proposed', sentPrepares', sentCommits')
        BY <1>2, <1>5, <1>6, BackedGrows
    <2>3. Backed(id, CountCommit(slot, n), Proposed', sentPrepares', sentCommits')
        BY <1>1, <1>5, <2>1, <2>2, CommitCounted
    <2>5. /\ \E pp \in Proposed : pp.number = id
          /\ Cardinality(Senders(sentPrepares, id)) >= PrepareQuorum
        <3>1. \A m \in sentPrepares : m.node \in Nodes
            BY <1>1 DEF TypeOK, SentType, Prepare
        <3>. HIDE DEF slot
        <3>. QED
            BY <1>5, <1>6, <3>1, PreparedSlot DEF ProposedAs
    <2>6. \A packet2 \in inFlight' :
             \/ packet2 \in inFlight
             \/ PacketBacked(packet2, sentPrePrepares', sentPrepares', sentCommits')
        BY <1>6, BroadcastKind DEF PacketBacked
    <2>7. \A p \in Nodes, i \in SlotIds :
             \/ log'[p][i] = log[p][i]
             \/ Backed(i, log'[p][i], Proposed', sentPrepares', sentCommits')
        <3>1. log' = [log EXCEPT ![n][id] = CountCommit(slot, n)]
            BY <1>6
        <3>. HIDE DEF n, id, slot
        <3>. QED
            BY <1>1, <2>3, <3>1, OneSlotUpdated
    <2>8. \A c \in sentCommits' \ sentCommits : c.number = id
        BY <1>6
    <2>. QED
        BY <1>1, <1>2, <1>6, <2>5, <2>6, <2>7, <2>8, CertificateStep
<1>7. CASE /\ log' = [log EXCEPT ![n][id] = slot]
           /\ inFlight' = inFlight \ {packet}
           /\ UNCHANGED sentCommits
    <2>1. \A p \in Nodes, i \in SlotIds :
             \/ log'[p][i] = log[p][i]
             \/ Backed(i, log'[p][i], Proposed', sentPrepares', sentCommits')
        <3>1. log' = [log EXCEPT ![n][id] = slot]
            BY <1>7
        <3>. HIDE DEF n, id, slot
        <3>. QED
            BY <1>1, <1>2, <1>5, <1>7, <3>1, OneSlotUpdated
    <2>. QED
        BY <1>1, <1>2, <1>7, <2>1, CertificateStep
<1>. QED
    BY <1>6, <1>7 DEF handlePrepare

\* handleCommit preserves the invariant: only 2f commits mark a slot committed.
LEMMA handleCommitCertificate ==
    ASSUME CertificateInv, NEW packet \in inFlight, handleCommit(packet)
    PROVE  CertificateInv'
<1>. DEFINE n == packet.to
            message == packet.message
            id == message.number
            slot == CountCommit(log[n][id], message.node)
            done == [slot EXCEPT !.committed = TRUE]
<1>1. TypeOK /\ TypeOK' /\ n \in Nodes /\ id \in SlotIds /\ message \in sentCommits
    BY handleCommitType, PacketType
        DEF CertificateInv, TypeOK, handleCommit, Delivered, PacketsBacked, PacketBacked, Commit
<1>2. /\ UNCHANGED <<sentPrePrepares, sentPrepares, sentCommits, sentNewViews, newView, rpcs>>
      /\ Proposed' = Proposed /\ inFlight' = inFlight \ {packet}
    BY DEF handleCommit, normalFrame, normalMessages, leaderVars, Proposed
<1>3. log[n][id] \in Slot /\ Backed(id, log[n][id], Proposed, sentPrepares, sentCommits)
    BY <1>1, SlotOfType DEF CertificateInv, LogBacked
<1>4. message.node \in Nodes /\ message.node \in Senders(sentCommits, id)
    BY <1>1, SenderCounted DEF TypeOK, SentType, Commit
<1>5. slot \in Slot /\ Backed(id, slot, Proposed, sentPrepares, sentCommits)
    BY <1>3, <1>4, SlotType, CommitCounted
<1>6. \/ log' = [log EXCEPT ![n][id] = slot]
      \/ NowCommitted(slot) /\ log' = [log EXCEPT ![n][id] = done]
    BY DEF handleCommit
<1>7. NowCommitted(slot) => Backed(id, done, Proposed, sentPrepares, sentCommits)
    BY <1>5 DEF NowCommitted, IsCommitted, Backed, Slot
<1>. HIDE DEF n, message, id, slot, done
<1>8. \A p \in Nodes, i \in SlotIds :
         \/ log'[p][i] = log[p][i]
         \/ Backed(i, log'[p][i], Proposed', sentPrepares', sentCommits')
    BY <1>1, <1>2, <1>5, <1>6, <1>7, OneSlotUpdated
<1>. QED
    BY <1>1, <1>2, <1>8, CertificateStep

-----------------------------------------------------------------------------
\* handleViewChange preserves the invariant: what a new primary logs it has proposed.
LEMMA handleViewChangeCertificate ==
    ASSUME CertificateInv, NEW packet \in inFlight, handleViewChange(packet)
    PROVE  CertificateInv'
<1>. DEFINE n == packet.to
            vc == packet.message
            messages == Received(n, vc)
<1>1. TypeOK /\ TypeOK' /\ n \in Nodes
    BY handleViewChangeType, PacketType DEF CertificateInv, TypeOK
<1>2. UNCHANGED <<sentPrePrepares, sentPrepares, sentCommits>>
    BY DEF handleViewChange, viewChangeFrame
<1>3. CASE LeadNewView(n, vc.viewNumber, messages) /\ inFlight' = inFlight \ {packet}
    <2>. DEFINE proofs == UNION {m.proofs : m \in messages}
                numbers == PreparedNumbers(messages)
    <2>0. PICK minS \in 0..MaxSeq, maxS \in 0..MaxSeq, chosen \in [numbers -> proofs] :
              AnnounceView(n, vc.viewNumber,
                           NewPrePrepares(n, vc.viewNumber, minS, maxS, proofs, chosen), maxS)
        BY <1>3 DEF LeadNewView
    <2>. DEFINE pps == NewPrePrepares(n, vc.viewNumber, minS, maxS, proofs, chosen)
    <2>1. AnnounceView(n, vc.viewNumber, pps, maxS)
        BY <2>0
    <2>. HIDE DEF pps
    <2>. DEFINE nv == [viewNumber |-> vc.viewNumber, prePrepares |-> pps, node |-> n]
    <2>2. /\ log' = [log EXCEPT ![n] = WithProposed(@, pps)]
          /\ newView' = [newView EXCEPT ![n] = nv]
          /\ sentNewViews' = sentNewViews \cup {nv}
          /\ rpcs' = rpcs \cup {StartRpc("NewView", n, p, nv) : p \in Linked("Heartbeat", n)}
        BY <2>1 DEF AnnounceView
    <2>3. nv.prePrepares = pps /\ pps \subseteq Proposed'
        BY <2>2 DEF Proposed
    <2>. HIDE DEF nv
    <2>4. \A p \in Nodes, id \in SlotIds :
             \/ log'[p][id] = log[p][id]
             \/ Backed(id, log'[p][id], Proposed', sentPrepares', sentCommits')
        <3>1. ASSUME NEW id \in SlotIds
              PROVE  \/ log'[n][id] = log[n][id]
                     \/ Backed(id, log'[n][id], Proposed', sentPrepares', sentCommits')
            <4>. DEFINE mine == {pp \in pps : pp.number = id}
                        pick == CHOOSE pp \in mine : TRUE
            <4>1. log'[n][id] = IF mine = {} THEN log[n][id]
                                ELSE ProposedSlot(pick.request, pick.digest)
                BY <1>1, <2>2 DEF WithProposed, TypeOK, LedgerType
            <4>2. CASE mine # {}
                <5>1. ProposedAs(id, pick.digest, Proposed')
                    <6>1. pick \in mine
                        BY <4>2
                    <6>. QED
                        BY <2>3, <6>1 DEF ProposedAs
                <5>. HIDE DEF mine, pick
                <5>. QED
                    BY <4>1, <4>2, <5>1 DEF Backed, ProposedSlot, EmptySlot
            <4>. QED
                BY <4>1, <4>2
        <3>2. \A p \in Nodes \ {n} : log'[p] = log[p]
            BY <1>1, <2>2 DEF TypeOK, LedgerType
        <3>. QED
            BY <3>1, <3>2
    <2>5. \A p \in Nodes : newView'[p] = newView[p] \/ newView'[p].prePrepares \subseteq Proposed'
        BY <1>1, <2>2, <2>3 DEF TypeOK, LeaderType
    <2>6. \A rpc \in rpcs' : rpc \in rpcs \/ RpcBacked(rpc, Proposed')
        BY <2>2, <2>3 DEF RpcBacked, StartRpc
    <2>. QED
        BY <1>1, <1>2, <1>3, <2>2, <2>4, <2>5, <2>6, CertificateStep
<1>4. CASE /\ UNCHANGED <<log, leaderVars, sentNewViews, rpcs>>
           /\ \A packet2 \in inFlight' : packet2 \in inFlight \/ packet2.kind = "ViewChange"
    BY <1>1, <1>2, <1>4, QuietStep DEF leaderVars
<1>5. ASSUME NEW view, startViewChange(n, view, {packet})
      PROVE  \A packet2 \in inFlight' : packet2 \in inFlight \/ packet2.kind = "ViewChange"
    BY <1>5, BroadcastKind DEF startViewChange
<1>. QED
    BY <1>3, <1>4, <1>5 DEF handleViewChange, changeMessageVars

\* handleNewView preserves the invariant: a backup logs, and prepares, what was proposed.
LEMMA handleNewViewCertificate ==
    ASSUME CertificateInv, NEW n \in Nodes, NEW nv \in NewView, handleNewView(n, nv), TypeOK',
           nv.prePrepares \subseteq Proposed,
           \A rpc \in rpcs' : rpc \in rpcs \/ RpcBacked(rpc, Proposed)
    PROVE  CertificateInv'
<1>1. TypeOK
    BY DEF CertificateInv
<1>2. /\ UNCHANGED <<sentPrePrepares, sentCommits, sentNewViews, newView>>
      /\ Proposed' = Proposed
    BY DEF handleNewView, viewChangeFrame, leaderVars, changeMessageVars, Proposed
<1>. DEFINE accepted == {pp \in nv.prePrepares : /\ pp.number.seqNumber > ResumeAt(n)
                                                 /\ Accepts(n, nv.viewNumber, pp)}
            prepares == {PrepareFor(n, pp) : pp \in accepted}
<1>3. CASE EnterAsBackup(n, nv)
    <2>1. /\ sentPrepares' = sentPrepares \cup prepares
          /\ inFlight' = inFlight \cup UNION {Broadcast("Prepare", n, m) : m \in prepares}
        BY <1>3 DEF EnterAsBackup
    <2>2. ASSUME NEW last, log' = [log EXCEPT ![n] = WithAccepted(n, @, accepted, last)]
          PROVE  \A p \in Nodes, id \in SlotIds :
                    \/ log'[p][id] = log[p][id]
                    \/ Backed(id, log'[p][id], Proposed', sentPrepares', sentCommits')
        <3>1. ASSUME NEW id \in SlotIds
              PROVE  \/ log'[n][id] = log[n][id]
                     \/ Backed(id, log'[n][id], Proposed', sentPrepares', sentCommits')
            <4>. DEFINE mine == {pp \in accepted : pp.number = id}
                        pick == CHOOSE pp \in mine : TRUE
            <4>1. log'[n][id] = IF mine = {} THEN log[n][id]
                                ELSE AcceptedSlot(n, log[n][id], last.request, pick.digest)
                BY <1>1, <2>2 DEF WithAccepted, TypeOK, LedgerType
            <4>2. CASE mine # {}
                <5>1. PICK pp \in accepted : pp.number = id
                    BY <4>2
                <5>2. ProposedAs(id, pick.digest, Proposed')
                    <6>1. pick \in mine
                        BY <4>2
                    <6>. QED
                        BY <1>2, <6>1 DEF ProposedAs
                <5>3. n \in Senders(sentPrepares', id)
                    <6>1. PrepareFor(n, pp) \in sentPrepares'
                        BY <2>1, <5>1
                    <6>2. PrepareFor(n, pp).node = n /\ PrepareFor(n, pp).number = id
                        BY <5>1 DEF PrepareFor
                    <6>. QED
                        BY <6>1, <6>2, SenderCounted
                <5>4. /\ Backed(id, log[n][id], Proposed, sentPrepares, sentCommits)
                      /\ log[n][id] \in Slot
                    BY <1>1, SlotOfType DEF CertificateInv, LogBacked
                <5>. HIDE DEF mine, pick, accepted, prepares
                <5>5. Backed(id, AcceptedSlot(n, log[n][id], last.request, pick.digest),
                             Proposed', sentPrepares', sentCommits')
                    BY <1>2, <2>1, <5>2, <5>3, <5>4, AcceptedBacked
                <5>. QED
                    BY <4>1, <4>2, <5>5
            <4>. QED
                BY <4>1, <4>2
        <3>2. \A p \in Nodes \ {n} : log'[p] = log[p]
            BY <1>1, <2>2 DEF TypeOK, LedgerType
        <3>. QED
            BY <3>1, <3>2
    <2>3. \A p \in Nodes, id \in SlotIds :
             \/ log'[p][id] = log[p][id]
             \/ Backed(id, log'[p][id], Proposed', sentPrepares', sentCommits')
        BY <1>3, <2>2 DEF EnterAsBackup
    <2>4. \A packet \in inFlight' :
             \/ packet \in inFlight
             \/ PacketBacked(packet, sentPrePrepares', sentPrepares', sentCommits')
        BY <2>1, BroadcastKind DEF PacketBacked
    <2>. QED
        BY <1>2, <2>1, <2>3, <2>4, CertificateStep
<1>4. CASE UNCHANGED <<log, sentPrepares, inFlight>>
    BY <1>2, <1>4, QuietStep
<1>. QED
    BY <1>3, <1>4 DEF handleNewView

\* handleCheckpointProof preserves the invariant.
LEMMA handleCheckpointProofCertificate ==
    ASSUME CertificateInv, NEW n \in Nodes, NEW proof, handleCheckpointProof(n, proof), TypeOK',
           \A rpc \in rpcs' : rpc \in rpcs \/ RpcBacked(rpc, Proposed)
    PROVE  CertificateInv'
<1>1. \A p \in Nodes, id \in SlotIds : log'[p][id] = log[p][id] \/ log'[p][id] = EmptySlot
    <2>. DEFINE flushed == Flushed(pendingCheckpoints[n], proof.number)
                kept == [id \in SlotIds |-> IF id \in flushed THEN EmptySlot ELSE log[n][id]]
    <2>1. UNCHANGED log \/ log' = [log EXCEPT ![n] = kept]
        BY DEF handleCheckpointProof, Checkpointed
    <2>2. log \in [Nodes -> [SlotIds -> Slot]]
        BY DEF CertificateInv, TypeOK, LedgerType
    <2>3. \A id \in SlotIds : kept[id] = log[n][id] \/ kept[id] = EmptySlot
        OBVIOUS
    <2>. HIDE DEF kept
    <2>. QED
        BY <2>1, <2>2, <2>3
<1>. QED
    BY <1>1, QuietStep DEF handleCheckpointProof, checkpointFrame, normalMessages,
        changeMessageVars, leaderVars

\* Handling a heartbeat RPC preserves the invariant.
LEMMA RpcHandledCertificate ==
    ASSUME CertificateInv, NEW rpc \in rpcs, RpcHandled(rpc)
    PROVE  CertificateInv'
<1>1. TypeOK /\ TypeOK' /\ rpc \in Rpc /\ RpcBacked(rpc, Proposed)
    BY RpcHandledType DEF CertificateInv, TypeOK, RpcsBacked
<1>2. \A r \in rpcs' : r \in rpcs \/ RpcBacked(r, Proposed)
    <2>1. RpcBacked([rpc EXCEPT !.stage = "replied"], Proposed)
        BY <1>1 DEF RpcBacked, Rpc, RpcOf
    <2>. QED
        BY <2>1 DEF RpcHandled
<1>3. CASE rpc.kind = "NewView" /\ handleNewView(rpc.to, rpc.body)
    BY <1>1, <1>2, <1>3, RpcType, handleNewViewCertificate DEF RpcBacked
<1>4. CASE rpc.kind = "PrePrepare" /\ handlePrePrepare(rpc.to, rpc.body, {})
    BY <1>1, <1>2, <1>4, RpcType, handlePrePrepareCertificate DEF RpcBacked
<1>5. CASE rpc.kind = "CheckpointProof" /\ handleCheckpointProof(rpc.to, rpc.body)
    BY <1>1, <1>2, <1>5, RpcType, handleCheckpointProofCertificate
<1>. QED
    BY <1>3, <1>4, <1>5 DEF RpcHandled

-----------------------------------------------------------------------------
\* The invariant holds of a cluster that has just started.
LEMMA CertificateInit == Init => CertificateInv
<1>. SUFFICES ASSUME Init PROVE CertificateInv
    OBVIOUS
<1>1. TypeOK
    BY InitType
<1>2. LogBacked
    BY EmptyBacked DEF Init, LogBacked
<1>. QED
    BY <1>1, <1>2 DEF Init, CertificateInv, PacketsBacked, RpcsBacked, CommitCertificate

\* Every step preserves the invariant.
LEMMA CertificateNext == CertificateInv /\ [Next]_vars => CertificateInv'
<1>. SUFFICES ASSUME CertificateInv, [Next]_vars
              PROVE  CertificateInv'
    OBVIOUS
<1>1. ASSUME NEW n \in Nodes, NEW r \in Requests, Propose(n, r)
      PROVE  CertificateInv'
    BY <1>1, handleClientRequestCertificate DEF Propose
<1>2. ASSUME NEW packet \in inFlight, ClientRequest(packet)
      PROVE  CertificateInv'
    <2>1. packet.to \in Nodes /\ packet.message.request \in Requests
        BY <1>2, PacketType
            DEF CertificateInv, TypeOK, ClientRequest, Delivered, ForwardedRequest
    <2>. QED
        BY <1>2, <2>1, handleClientRequestCertificate DEF ClientRequest
<1>3. CASE UNCHANGED vars
    <2>1. TypeOK'
        BY TypeStep DEF CertificateInv
    <2>. QED
        BY <1>3, <2>1, QuietStep DEF vars, ledgerVars, leaderVars, normalMessages,
            changeMessageVars
<1>. QED
    BY <1>1, <1>2, <1>3, PrePrepareReceivedCertificate, handlePrepareCertificate,
        handleCommitCertificate, handleCheckpointCertificate, handleViewChangeCertificate,
        handleRecvSnapshotCertificate, SendHeartbeatCertificate, TimeoutCertificate,
        DebugCertificate, RpcHandledCertificate, RpcMovesCertificate
        DEF Next

\* The invariant holds in every behaviour.
LEMMA CertificateInvariant == Spec => []CertificateInv
BY CertificateInit, CertificateNext, PTL DEF Spec

\* Nobody broadcasts a commit without a proposal and 2f prepares behind it,
\* in clusters of every size, over any number of views.
THEOREM CommitCertificateHolds == Spec => []CommitCertificate
<1>1. CertificateInv => CommitCertificate
    BY DEF CertificateInv
<1>. QED
    BY <1>1, CertificateInvariant, PTL

\* No slot is marked committed but by the commits of 2f nodes, each of which has
\* broadcast one.
THEOREM CommittedCertificateHolds == Spec => []CommittedCertificate
<1>1. CertificateInv => CommittedCertificate
    <2>1. SUFFICES ASSUME CertificateInv, NEW n \in Nodes, NEW id \in SlotIds,
                          log[n][id].committed
                   PROVE  Cardinality(Senders(sentCommits, id)) >= CommitQuorum
        BY DEF CommittedCertificate, Committers
    <2>2. /\ log[n][id].commits \subseteq Senders(sentCommits, id)
          /\ Cardinality(log[n][id].commits) >= CommitQuorum
        BY <2>1 DEF CertificateInv, LogBacked, Backed
    <2>3. \A c \in sentCommits : c.node \in Nodes
        BY <2>1 DEF CertificateInv, TypeOK, SentType, Commit
    <2>4. /\ Cardinality(log[n][id].commits) <= Cardinality(Senders(sentCommits, id))
          /\ Cardinality(log[n][id].commits) \in Nat
          /\ Cardinality(Senders(sentCommits, id)) \in Nat
        BY <2>2, <2>3, SendersFinite, FS_CardinalityType
    <2>. QED
        BY <2>2, <2>4, QuorumType
<1>. QED
    BY <1>1, CertificateInvariant, PTL

-----------------------------------------------------------------------------
(* Checkpoints. *)

\* A checkpoint has the votes of 2f+1 nodes, and the snapshot of one of them.
Signed(votes, checkpoint) ==
    /\ Cardinality(Senders(votes, checkpoint.number)) >= CheckpointQuorum
    /\ \E m \in votes : m.number = checkpoint.number /\ m.snapshot = checkpoint.snapshot

CertifiedBy(votes, checkpoint) ==
    checkpoint.number # SlotId(0, 0) => Signed(votes, checkpoint)

\* What a node has pending, and the checkpoint it holds stable, rest on votes sent.
Sound(pending, stable, votes) ==
    /\ \A id \in SlotIds : pending[id].proof \subseteq Senders(votes, id)
    /\ \A id \in SlotIds : pending[id].proof # {} =>
          /\ Before(stable.number, id)
          /\ \E m \in votes : m.number = id /\ m.snapshot = pending[id].snapshot
    /\ CertifiedBy(votes, stable)

NodesSound ==
    \A n \in Nodes : Sound(pendingCheckpoints[n], lastCheckpoint[n], sentCheckpoints)

VotesSent == \A packet \in inFlight : packet.kind = "Checkpoint" => packet.message \in sentCheckpoints

ProofsCertified ==
    \A rpc \in rpcs : rpc.kind = "CheckpointProof" => Signed(sentCheckpoints, rpc.body)

CheckpointInv == TypeOK /\ NodesSound /\ VotesSent /\ ProofsCertified /\ ReachedCheckpoint

-----------------------------------------------------------------------------
\* The quorum isStable asks for is a number.
LEMMA CheckpointQuorumType == CheckpointQuorum \in Int
<1>1. Cardinality(Nodes) \in Nat
    BY NodesAssumption, FS_CardinalityType
<1>. QED
    BY <1>1 DEF CheckpointQuorum, NPeers

\* Before orders slot numbers totally (common.go, 72-84).
LEMMA BeforeTotal ==
    ASSUME NEW a \in SlotIds, NEW b \in SlotIds
    PROVE  /\ ~BeforeOrEqual(a, b) <=> Before(b, a)
           /\ ~Before(a, b) <=> BeforeOrEqual(b, a)
BY DEF SlotIds, Before, BeforeOrEqual

\* A checkpoint stays signed as votes are sent.
LEMMA SignedGrows ==
    ASSUME NEW V, NEW W, V \subseteq W, \A m \in W : m.node \in Nodes,
           NEW checkpoint, Signed(V, checkpoint)
    PROVE  Signed(W, checkpoint)
<1>. DEFINE number == checkpoint.number
<1>1. Senders(V, number) \subseteq Senders(W, number)
    BY SendersGrow
<1>2. \A m \in V : m.node \in Nodes
    OBVIOUS
<1>3. /\ Cardinality(Senders(V, number)) <= Cardinality(Senders(W, number))
      /\ Cardinality(Senders(V, number)) \in Nat
      /\ Cardinality(Senders(W, number)) \in Nat
    BY <1>1, <1>2, SendersFinite
<1>4. Cardinality(Senders(W, number)) >= CheckpointQuorum
    BY <1>3, CheckpointQuorumType DEF Signed
<1>. QED
    BY <1>4 DEF Signed

\* So does everything a node holds.
LEMMA SoundGrows ==
    ASSUME NEW V, NEW W, V \subseteq W, \A m \in W : m.node \in Nodes,
           NEW pending, NEW stable, Sound(pending, stable, V)
    PROVE  Sound(pending, stable, W)
<1>1. CertifiedBy(W, stable)
    BY SignedGrows DEF Sound, CertifiedBy
<1>2. \A id \in SlotIds : Senders(V, id) \subseteq Senders(W, id)
    BY SendersGrow
<1>. QED
    BY <1>1, <1>2 DEF Sound

\* What a step must do for the invariant to survive it.
LEMMA CheckpointStep ==
    ASSUME CheckpointInv, TypeOK', sentCheckpoints \subseteq sentCheckpoints',
           \A n \in Nodes :
               \/ UNCHANGED <<pendingCheckpoints[n], lastCheckpoint[n]>>
               \/ Sound(pendingCheckpoints'[n], lastCheckpoint'[n], sentCheckpoints'),
           \A n \in Nodes : mainLoop'[n] = "running" =>
               lastCheckpoint'[n].number.seqNumber <= sequenceNumber'[n],
           \A packet \in inFlight' :
               \/ packet \in inFlight
               \/ packet.kind # "Checkpoint"
               \/ packet.message \in sentCheckpoints'
               \/ \E old \in inFlight : packet = [old EXCEPT !.accepted = TRUE],
           \A rpc \in rpcs' :
               \/ rpc.kind # "CheckpointProof"
               \/ \E old \in rpcs : rpc.kind = old.kind /\ rpc.body = old.body
               \/ Signed(sentCheckpoints', rpc.body)
    PROVE  CheckpointInv'
<1>1. \A m \in sentCheckpoints' : m.node \in Nodes
    BY DEF TypeOK, SentType, Checkpoint
<1>2. NodesSound'
    <2>1. ASSUME NEW n \in Nodes, UNCHANGED <<pendingCheckpoints[n], lastCheckpoint[n]>>
          PROVE  Sound(pendingCheckpoints'[n], lastCheckpoint'[n], sentCheckpoints')
        BY <1>1, <2>1, SoundGrows DEF CheckpointInv, NodesSound
    <2>. QED
        BY <2>1 DEF NodesSound
<1>3. VotesSent'
    <2>1. SUFFICES ASSUME NEW packet \in inFlight', packet.kind = "Checkpoint"
                   PROVE  packet.message \in sentCheckpoints'
        BY DEF VotesSent
    <2>2. CASE packet \in inFlight
        BY <2>1, <2>2 DEF CheckpointInv, VotesSent
    <2>3. CASE \E old \in inFlight : packet = [old EXCEPT !.accepted = TRUE]
        <3>1. PICK old \in inFlight : packet = [old EXCEPT !.accepted = TRUE]
            BY <2>3
        <3>2. packet.kind = old.kind /\ packet.message = old.message
            BY <3>1 DEF CheckpointInv, TypeOK, Packet, PacketOf
        <3>. QED
            BY <2>1, <3>2 DEF CheckpointInv, VotesSent
    <2>. QED
        BY <2>1, <2>2, <2>3
<1>4. ProofsCertified'
    <2>1. SUFFICES ASSUME NEW rpc \in rpcs', rpc.kind = "CheckpointProof"
                   PROVE  Signed(sentCheckpoints', rpc.body)
        BY DEF ProofsCertified
    <2>2. ASSUME NEW old \in rpcs, rpc.kind = old.kind, rpc.body = old.body
          PROVE  Signed(sentCheckpoints', rpc.body)
        BY <1>1, <2>1, <2>2, SignedGrows DEF CheckpointInv, ProofsCertified
    <2>. QED
        BY <2>1, <2>2
<1>5. ReachedCheckpoint'
    BY DEF ReachedCheckpoint, Running
<1>. QED
    BY <1>2, <1>3, <1>4, <1>5 DEF CheckpointInv

-----------------------------------------------------------------------------
\* checkpointed() leaves a node sound, and at the checkpoint unless it blocks.
LEMMA CheckpointedSound ==
    ASSUME TypeOK, NEW n \in Nodes, NEW checkpoint \in CheckpointProof,
           NEW pending \in [SlotIds -> Pending], NEW queue, NEW votes,
           Checkpointed(n, checkpoint, pending, queue), ReachedCheckpoint,
           Sound(pending, lastCheckpoint[n], votes),
           CertifiedBy(votes, checkpoint)
    PROVE  /\ Sound(pendingCheckpoints'[n], lastCheckpoint'[n], votes)
           /\ mainLoop'[n] = "running" /\ mainLoop[n] = "running" =>
                  lastCheckpoint'[n].number.seqNumber <= sequenceNumber'[n]
           /\ \A p \in Nodes \ {n} :
                  UNCHANGED <<pendingCheckpoints[p], lastCheckpoint[p], sequenceNumber[p], mainLoop[p]>>
<1>1. /\ pendingCheckpoints \in [Nodes -> [SlotIds -> Pending]]
      /\ lastCheckpoint \in [Nodes -> CheckpointProof]
      /\ sequenceNumber \in [Nodes -> 1..MaxSeq]
      /\ mainLoop \in [Nodes -> {"running", "panicked", "blocked"}]
    BY DEF TypeOK, CheckpointType, LedgerType, ProcessType
<1>2. checkpoint.number \in SlotIds /\ lastCheckpoint[n].number \in SlotIds
    BY <1>1 DEF CheckpointProof
<1>3. CASE IsPassed(n, checkpoint.number)
    <2>1. /\ pendingCheckpoints' = [pendingCheckpoints EXCEPT ![n] = pending]
          /\ UNCHANGED <<lastCheckpoint, sequenceNumber, mainLoop>>
        BY <1>3 DEF Checkpointed
    <2>. QED
        BY <1>1, <2>1 DEF ReachedCheckpoint, Running
<1>4. CASE ~IsPassed(n, checkpoint.number)
    <2>. DEFINE flushed == Flushed(pending, checkpoint.number)
                kept == [id \in SlotIds |-> IF id \in flushed THEN EmptyPending ELSE pending[id]]
    <2>1. /\ lastCheckpoint' = [lastCheckpoint EXCEPT ![n] = checkpoint]
          /\ pendingCheckpoints' = [pendingCheckpoints EXCEPT ![n] = kept]
          /\ CatchUpTo(n, checkpoint, queue)
        BY <1>4 DEF Checkpointed
    <2>2. Sound(kept, checkpoint, votes)
        <3>1. ASSUME NEW id \in SlotIds
              PROVE  /\ kept[id].proof \subseteq Senders(votes, id)
                     /\ kept[id].proof # {} =>
                         /\ Before(checkpoint.number, id)
                         /\ \E m \in votes : m.number = id /\ m.snapshot = kept[id].snapshot
            <4>1. CASE id \in flushed
                BY <4>1 DEF EmptyPending
            <4>2. CASE id \notin flushed
                <5>1. kept[id] = pending[id]
                    BY <4>2
                <5>2. pending[id].proof # {} => ~BeforeOrEqual(id, checkpoint.number)
                    BY <4>2 DEF Flushed
                <5>. QED
                    BY <1>2, <5>1, <5>2, BeforeTotal DEF Sound
            <4>. QED
                BY <4>1, <4>2
        <3>. QED
            BY <3>1 DEF Sound
    <2>. HIDE DEF kept
    <2>3. /\ lastCheckpoint'[n] = checkpoint /\ pendingCheckpoints'[n] = kept
          /\ \A p \in Nodes \ {n} : UNCHANGED <<pendingCheckpoints[p], lastCheckpoint[p]>>
        BY <1>1, <2>1
    <2>4. mainLoop'[n] = "running" /\ mainLoop[n] = "running" =>
              checkpoint.number.seqNumber <= sequenceNumber'[n]
        BY <1>1, <1>2, <2>1 DEF CatchUpTo, IsBehind, SlotIds
    <2>5. \A p \in Nodes \ {n} : UNCHANGED <<sequenceNumber[p], mainLoop[p]>>
        BY <1>1, <2>1 DEF CatchUpTo
    <2>. QED
        BY <2>2, <2>3, <2>4, <2>5
<1>. QED
    BY <1>3, <1>4

\* A vote that was sent, for a checkpoint not stable yet, leaves pending votes sound.
LEMMA VotedSound ==
    ASSUME TypeOK, NEW n \in Nodes, NEW message \in Checkpoint, NEW votes, message \in votes,
           Sound(pendingCheckpoints[n], lastCheckpoint[n], votes),
           ~IsStable(n, message.number, pendingCheckpoints[n])
    PROVE  /\ Sound(Voted(pendingCheckpoints[n], message), lastCheckpoint[n], votes)
           /\ Voted(pendingCheckpoints[n], message) \in [SlotIds -> Pending]
<1>1. /\ pendingCheckpoints[n] \in [SlotIds -> Pending]
      /\ lastCheckpoint[n].number \in SlotIds /\ message.number \in SlotIds
    BY DEF TypeOK, CheckpointType, CheckpointProof, Checkpoint
<1>2. Before(lastCheckpoint[n].number, message.number)
    BY <1>1, BeforeTotal DEF IsStable
<1>3. message.node \in Senders(votes, message.number)
    BY SenderCounted
<1>4. Voted(pendingCheckpoints[n], message) \in [SlotIds -> Pending]
    BY <1>1, VotedType
<1>5. ASSUME NEW id \in SlotIds
      PROVE  Voted(pendingCheckpoints[n], message)[id].proof =
                 pendingCheckpoints[n][id].proof \cup
                     (IF id = message.number THEN {message.node} ELSE {})
    BY <1>1 DEF Voted
<1>6. ASSUME NEW id \in SlotIds
      PROVE  Voted(pendingCheckpoints[n], message)[id].snapshot =
                 IF id = message.number /\ pendingCheckpoints[n][id].proof = {}
                 THEN message.snapshot ELSE pendingCheckpoints[n][id].snapshot
    BY <1>1 DEF Voted
<1>7. ASSUME NEW id \in SlotIds, Voted(pendingCheckpoints[n], message)[id].proof # {}
      PROVE  /\ Before(lastCheckpoint[n].number, id)
             /\ \E m \in votes :
                   /\ m.number = id
                   /\ m.snapshot = Voted(pendingCheckpoints[n], message)[id].snapshot
    <2>1. CASE pendingCheckpoints[n][id].proof # {}
        BY <1>6, <2>1 DEF Sound
    <2>2. CASE pendingCheckpoints[n][id].proof = {}
        <3>1. id = message.number
            BY <1>5, <1>7, <2>2
        <3>. QED
            BY <1>2, <1>6, <2>2, <3>1
    <2>. QED
        BY <2>1, <2>2
<1>. QED
    BY <1>3, <1>4, <1>5, <1>7 DEF Sound

\* The same of handleCheckpointNoValidation, for a vote that was sent.
LEMMA NoValidationSound ==
    ASSUME TypeOK, NEW n \in Nodes, NEW message \in Checkpoint, NEW queue, NEW votes,
           message \in votes, \A m \in votes : m.node \in Nodes, ReachedCheckpoint,
           handleCheckpointNoValidation(n, message, queue),
           Sound(pendingCheckpoints[n], lastCheckpoint[n], votes)
    PROVE  /\ Sound(pendingCheckpoints'[n], lastCheckpoint'[n], votes)
           /\ mainLoop'[n] = "running" /\ mainLoop[n] = "running" =>
                  lastCheckpoint'[n].number.seqNumber <= sequenceNumber'[n]
           /\ \A p \in Nodes \ {n} :
                  UNCHANGED <<pendingCheckpoints[p], lastCheckpoint[p], sequenceNumber[p], mainLoop[p]>>
<1>. DEFINE pending == Voted(pendingCheckpoints[n], message)
<1>1. pendingCheckpoints \in [Nodes -> [SlotIds -> Pending]]
    BY DEF TypeOK, CheckpointType
<1>2. CASE IsStable(n, message.number, pendingCheckpoints[n])
    BY <1>2 DEF handleCheckpointNoValidation, checkpointVars, ReachedCheckpoint, Running
<1>3. CASE ~IsStable(n, message.number, pendingCheckpoints[n]) /\ ~IsStable(n, message.number, pending)
    <2>1. /\ pendingCheckpoints' = [pendingCheckpoints EXCEPT ![n] = pending]
          /\ UNCHANGED <<lastCheckpoint, sequenceNumber, mainLoop>>
        BY <1>3 DEF handleCheckpointNoValidation
    <2>2. Sound(pending, lastCheckpoint[n], votes)
        BY <1>3, VotedSound
    <2>. HIDE DEF pending
    <2>. QED
        BY <1>1, <2>1, <2>2 DEF ReachedCheckpoint, Running
<1>4. CASE ~IsStable(n, message.number, pendingCheckpoints[n]) /\ IsStable(n, message.number, pending)
    <2>. DEFINE checkpoint == [number |-> message.number, snapshot |-> pending[message.number].snapshot]
    <2>1. Checkpointed(n, checkpoint, pending, queue)
        BY <1>4 DEF handleCheckpointNoValidation
    <2>2. /\ Sound(pending, lastCheckpoint[n], votes)
          /\ pending \in [SlotIds -> Pending]
        BY <1>4, VotedSound
    <2>3. message.number \in SlotIds
        BY DEF Checkpoint
    <2>4. checkpoint \in CheckpointProof
        BY <2>2, <2>3 DEF CheckpointProof, Pending
    <2>0. message.node \in pending[message.number].proof
        BY <1>1, <2>3 DEF Voted
    <2>5. HasQuorum(pending[message.number].proof)
        BY <1>4 DEF IsStable
    <2>. HIDE DEF pending
    <2>6. Cardinality(Senders(votes, message.number)) >= CheckpointQuorum
        <3>1. pending[message.number].proof \subseteq Senders(votes, message.number)
            BY <2>2, <2>3 DEF Sound
        <3>2. /\ Cardinality(pending[message.number].proof)
                     <= Cardinality(Senders(votes, message.number))
              /\ IsFiniteSet(pending[message.number].proof)
              /\ Cardinality(Senders(votes, message.number)) \in Nat
            BY <3>1, SendersFinite
        <3>3. Cardinality(pending[message.number].proof) \in Nat
            BY <3>2, FS_CardinalityType
        <3>. QED
            BY <2>5, <3>2, <3>3, CheckpointQuorumType DEF HasQuorum
    <2>7. CertifiedBy(votes, checkpoint)
        <3>1. pending[message.number].proof # {}
            BY <2>0
        <3>2. \E m \in votes : /\ m.number = message.number
                               /\ m.snapshot = pending[message.number].snapshot
            BY <2>2, <2>3, <3>1 DEF Sound
        <3>. QED
            BY <2>6, <3>2 DEF CertifiedBy, Signed
    <2>. HIDE DEF checkpoint
    <2>. QED
        BY <2>1, <2>2, <2>4, <2>7, CheckpointedSound
<1>. QED
    BY <1>2, <1>3, <1>4

-----------------------------------------------------------------------------
\* Steps that neither vote nor make a checkpoint stable.
LEMMA NoCheckpoint ==
    ASSUME CheckpointInv, TypeOK', UNCHANGED <<checkpointVars, sentCheckpoints>>,
           \A n \in Nodes : mainLoop'[n] = "running" =>
               /\ mainLoop[n] = "running"
               /\ \/ sequenceNumber[n] <= sequenceNumber'[n]
                  \/ lastCheckpoint[n].number.seqNumber <= sequenceNumber'[n],
           \A packet \in inFlight' :
               \/ packet \in inFlight
               \/ packet.kind # "Checkpoint"
               \/ \E old \in inFlight : packet = [old EXCEPT !.accepted = TRUE],
           \A rpc \in rpcs' :
               \/ rpc.kind # "CheckpointProof"
               \/ \E old \in rpcs : rpc.kind = old.kind /\ rpc.body = old.body
               \/ Signed(sentCheckpoints', rpc.body)
    PROVE  CheckpointInv'
<1>1. UNCHANGED <<pendingCheckpoints, lastCheckpoint>>
    BY DEF checkpointVars
<1>2. ASSUME NEW n \in Nodes, mainLoop'[n] = "running"
      PROVE  lastCheckpoint'[n].number.seqNumber <= sequenceNumber'[n]
    <2>1. /\ lastCheckpoint[n].number.seqNumber \in Int
          /\ sequenceNumber[n] \in Int /\ sequenceNumber'[n] \in Int
        BY BoundsAssumption DEF CheckpointInv, TypeOK, CheckpointType, CheckpointProof,
            SlotIds, LedgerType
    <2>2. lastCheckpoint[n].number.seqNumber <= sequenceNumber[n]
        BY <1>2 DEF CheckpointInv, ReachedCheckpoint, Running
    <2>. QED
        BY <1>1, <1>2, <2>1, <2>2
<1>. QED
    BY <1>1, <1>2, CheckpointStep

\* The handlers of the normal case broadcast no checkpoint.
LEMMA NormalBroadcasts ==
    ASSUME NEW n \in Nodes, NEW done,
           \/ \E r \in Requests : handleClientRequest(n, r, done)
           \/ \E pp \in PrePrepare : handlePrePrepare(n, pp, done)
    PROVE  \A packet \in inFlight' : packet \in inFlight \/ packet.kind # "Checkpoint"
<1>1. ASSUME NEW r \in Requests, handleClientRequest(n, r, done)
      PROVE  \A packet \in inFlight' :
                packet \in inFlight \/ packet.kind \in {"PrePrepare", "ClientRequest"}
    <2>1. CASE PrimaryProposes(n, r, done)
        BY <2>1, BroadcastKind DEF PrimaryProposes
    <2>2. CASE BackupForwards(n, r, done)
        BY <2>2, BroadcastKind DEF BackupForwards
    <2>. QED
        BY <1>1, <2>1, <2>2 DEF handleClientRequest
<1>2. ASSUME NEW pp \in PrePrepare, handlePrePrepare(n, pp, done)
      PROVE  \A packet \in inFlight' : packet \in inFlight \/ packet.kind = "Prepare"
    BY <1>2, BroadcastKind DEF handlePrePrepare
<1>. QED
    BY <1>1, <1>2

\* handleClientRequest, handlePrePrepare and handlePrepare do nothing to checkpoints.
LEMMA NormalCheckpoint ==
    ASSUME CheckpointInv, TypeOK',
           \/ \E n \in Nodes, r \in Requests : Propose(n, r)
           \/ \E packet \in inFlight : ClientRequest(packet) \/ PrePrepareReceived(packet)
           \/ \E packet \in inFlight : handlePrepare(packet)
    PROVE  CheckpointInv'
<1>1. UNCHANGED <<checkpointVars, sentCheckpoints, mainLoop, sequenceNumber, rpcs>>
    BY DEF Propose, ClientRequest, handleClientRequest, PrePrepareReceived, handlePrePrepare,
        handlePrepare, normalFrame
<1>2. \A packet \in inFlight' : packet \in inFlight \/ packet.kind # "Checkpoint"
    <2>1. ASSUME NEW n \in Nodes, NEW r \in Requests, Propose(n, r)
          PROVE  \A packet \in inFlight' : packet \in inFlight \/ packet.kind # "Checkpoint"
        BY <2>1, NormalBroadcasts DEF Propose
    <2>2. ASSUME NEW packet \in inFlight
          PROVE  /\ packet.to \in Nodes
                 /\ packet.kind = "ClientRequest" => packet.message.request \in Requests
                 /\ packet.kind = "PrePrepare" => packet.message \in PrePrepare
        BY PacketType DEF CheckpointInv, TypeOK, ForwardedRequest
    <2>3. ASSUME NEW packet \in inFlight, ClientRequest(packet)
          PROVE  \A other \in inFlight' : other \in inFlight \/ other.kind # "Checkpoint"
        BY <2>2, <2>3, NormalBroadcasts DEF ClientRequest, Delivered
    <2>4. ASSUME NEW packet \in inFlight, PrePrepareReceived(packet)
          PROVE  \A other \in inFlight' : other \in inFlight \/ other.kind # "Checkpoint"
        BY <2>2, <2>4, NormalBroadcasts DEF PrePrepareReceived, Delivered
    <2>5. ASSUME NEW packet \in inFlight, handlePrepare(packet)
          PROVE  \A other \in inFlight' : other \in inFlight \/ other.kind = "Commit"
        BY <2>5, BroadcastKind, SMTT(30) DEF handlePrepare
    <2>. QED
        BY <2>1, <2>3, <2>4, <2>5
<1>3. \A n \in Nodes : sequenceNumber[n] \in Int
    BY BoundsAssumption DEF CheckpointInv, TypeOK, LedgerType
<1>. QED
    BY <1>1, <1>2, <1>3, NoCheckpoint

\* handleCommit never moves the sequence number back.
LEMMA handleCommitCheckpoint ==
    ASSUME CheckpointInv, TypeOK', NEW packet \in inFlight, handleCommit(packet)
    PROVE  CheckpointInv'
<1>. DEFINE n == packet.to
            number == Larger(sequenceNumber[n], packet.message.number.seqNumber)
<1>1. /\ sequenceNumber \in [Nodes -> 1..MaxSeq] /\ n \in Nodes
      /\ mainLoop \in [Nodes -> {"running", "panicked", "blocked"}]
      /\ packet.message \in Commit
    BY PacketType DEF CheckpointInv, TypeOK, LedgerType, ProcessType, handleCommit, Delivered
<1>2. packet.message.number.seqNumber \in Int
    BY <1>1, BoundsAssumption DEF Commit, SlotIds
<1>3. number >= sequenceNumber[n]
    BY <1>1, <1>2, BoundsAssumption DEF Larger
<1>4. UNCHANGED sequenceNumber \/ sequenceNumber' = [sequenceNumber EXCEPT ![n] = number]
    BY DEF handleCommit
<1>5. UNCHANGED mainLoop \/ mainLoop' = [mainLoop EXCEPT ![n] = "blocked"]
    BY DEF handleCommit, Execute
<1>. HIDE DEF number
<1>6. \A p \in Nodes : sequenceNumber[p] <= sequenceNumber'[p]
    BY <1>1, <1>3, <1>4, BoundsAssumption
<1>7. \A p \in Nodes : mainLoop'[p] = "running" => mainLoop[p] = "running"
    BY <1>1, <1>5
<1>8. UNCHANGED <<checkpointVars, sentCheckpoints, rpcs>> /\ inFlight' \subseteq inFlight
    BY DEF handleCommit, normalFrame
<1>. QED
    BY <1>6, <1>7, <1>8, NoCheckpoint

\* The debug switch and the backup's timer have nothing to do with checkpoints.
LEMMA DebugTimeoutCheckpoint ==
    ASSUME CheckpointInv, TypeOK', NEW n \in Nodes, DebugDown(n) \/ DebugUp(n) \/ Timeout(n)
    PROVE  CheckpointInv'
<1>1. UNCHANGED <<checkpointVars, sentCheckpoints, mainLoop, sequenceNumber, rpcs>>
    BY DEF DebugDown, DebugUp, debugFrame, normalFrame, ledgerVars, Timeout
<1>2. \A packet \in inFlight' :
         \/ packet \in inFlight \/ packet.kind # "Checkpoint"
         \/ \E old \in inFlight : packet = [old EXCEPT !.accepted = TRUE]
    BY BroadcastKind DEF DebugDown, DebugUp, Timeout, startViewChange
<1>3. \A p \in Nodes : sequenceNumber[p] \in Int
    BY BoundsAssumption DEF CheckpointInv, TypeOK, LedgerType
<1>. QED
    BY <1>1, <1>2, <1>3, NoCheckpoint

\* A node enters a view at its last checkpoint.
LEMMA enterNewViewReaches ==
    ASSUME TypeOK, NEW n \in Nodes, NEW view, enterNewView(n, view)
    PROVE  \A p \in Nodes : \/ sequenceNumber[p] <= sequenceNumber'[p]
                            \/ lastCheckpoint[p].number.seqNumber <= sequenceNumber'[p]
<1>1. sequenceNumber \in [Nodes -> 1..MaxSeq] /\ lastCheckpoint[n].number.seqNumber \in Int
    BY BoundsAssumption DEF TypeOK, LedgerType, CheckpointType, CheckpointProof, SlotIds
<1>2. sequenceNumber' = [sequenceNumber EXCEPT ![n] = ResumeAt(n)]
    BY DEF enterNewView
<1>3. ResumeAt(n) >= lastCheckpoint[n].number.seqNumber
    BY <1>1 DEF ResumeAt, Larger
<1>. QED
    BY <1>1, <1>2, <1>3, BoundsAssumption

\* handleViewChange, whether the node joins the view change, leads it or neither.
LEMMA handleViewChangeCheckpoint ==
    ASSUME CheckpointInv, TypeOK', NEW packet \in inFlight, handleViewChange(packet)
    PROVE  CheckpointInv'
<1>. DEFINE n == packet.to
            vc == packet.message
            messages == Received(n, vc)
<1>1. TypeOK /\ n \in Nodes
    BY PacketType DEF CheckpointInv, TypeOK
<1>2. UNCHANGED <<checkpointVars, sentCheckpoints, mainLoop>>
    BY DEF handleViewChange, viewChangeFrame
<1>3. \A p \in Nodes : sequenceNumber[p] \in Int
    BY <1>1, BoundsAssumption DEF TypeOK, LedgerType
<1>4. CASE LeadNewView(n, vc.viewNumber, messages) /\ inFlight' = inFlight \ {packet}
    <2>. DEFINE proofs == UNION {m.proofs : m \in messages}
                numbers == PreparedNumbers(messages)
    <2>1. PICK minS \in 0..MaxSeq, maxS \in 0..MaxSeq, chosen \in [numbers -> proofs] :
              AnnounceView(n, vc.viewNumber,
                           NewPrePrepares(n, vc.viewNumber, minS, maxS, proofs, chosen), maxS)
        BY <1>4 DEF LeadNewView
    <2>2. enterNewView(n, vc.viewNumber) /\ \A rpc \in rpcs' : rpc \in rpcs \/ rpc.kind = "NewView"
        BY <2>1 DEF AnnounceView, StartRpc
    <2>. QED
        BY <1>1, <1>2, <1>4, <2>2, enterNewViewReaches, NoCheckpoint
<1>5. CASE UNCHANGED <<sequenceNumber, rpcs>> /\ inFlight' \subseteq inFlight
    BY <1>2, <1>3, <1>5, NoCheckpoint
<1>6. CASE UNCHANGED <<sequenceNumber, rpcs>> /\ \E view : startViewChange(n, view, {packet})
    <2>1. \A p \in inFlight' : p \in inFlight \/ p.kind = "ViewChange"
        BY <1>6, BroadcastKind DEF startViewChange
    <2>. QED
        BY <1>2, <1>3, <1>6, <2>1, NoCheckpoint
<1>. QED
    BY <1>4, <1>5, <1>6 DEF handleViewChange

-----------------------------------------------------------------------------
\* A vote, a peer's or the node's own, preserves the invariant.
LEMMA VoteCheckpoint ==
    ASSUME CheckpointInv, TypeOK', NEW n \in Nodes, NEW message \in Checkpoint, NEW queue,
           handleCheckpointNoValidation(n, message, queue), message \in sentCheckpoints',
           sentCheckpoints \subseteq sentCheckpoints', UNCHANGED rpcs,
           \A packet \in inFlight' :
               packet \in inFlight \/ packet.kind # "Checkpoint" \/ packet.message = message
    PROVE  CheckpointInv'
<1>1. TypeOK /\ ReachedCheckpoint /\ \A m \in sentCheckpoints' : m.node \in Nodes
    BY DEF CheckpointInv, TypeOK, SentType, Checkpoint
<1>2. \A p \in Nodes : Sound(pendingCheckpoints[p], lastCheckpoint[p], sentCheckpoints')
    BY <1>1, SoundGrows DEF CheckpointInv, NodesSound
<1>3. /\ Sound(pendingCheckpoints'[n], lastCheckpoint'[n], sentCheckpoints')
      /\ mainLoop'[n] = "running" /\ mainLoop[n] = "running" =>
             lastCheckpoint'[n].number.seqNumber <= sequenceNumber'[n]
      /\ \A p \in Nodes \ {n} :
             UNCHANGED <<pendingCheckpoints[p], lastCheckpoint[p], sequenceNumber[p], mainLoop[p]>>
    BY <1>1, <1>2, NoValidationSound
<1>4. mainLoop'[n] = "running" => mainLoop[n] = "running"
    <2>1. UNCHANGED mainLoop \/ mainLoop' = [mainLoop EXCEPT ![n] = "blocked"]
        BY DEF handleCheckpointNoValidation, Checkpointed, CatchUpTo
    <2>. QED
        BY <1>1, <2>1 DEF TypeOK, ProcessType
<1>5. \A p \in Nodes : mainLoop'[p] = "running" =>
         lastCheckpoint'[p].number.seqNumber <= sequenceNumber'[p]
    BY <1>1, <1>3, <1>4 DEF ReachedCheckpoint, Running
<1>6. \A packet \in inFlight' :
         \/ packet \in inFlight \/ packet.kind # "Checkpoint"
         \/ packet.message \in sentCheckpoints'
    OBVIOUS
<1>7. \A p \in Nodes :
         \/ UNCHANGED <<pendingCheckpoints[p], lastCheckpoint[p]>>
         \/ Sound(pendingCheckpoints'[p], lastCheckpoint'[p], sentCheckpoints')
    BY <1>3
<1>. QED
    BY <1>5, <1>6, <1>7, CheckpointStep

\* handleCheckpoint preserves the invariant: a vote received is a vote sent.
LEMMA handleCheckpointCheckpoint ==
    ASSUME CheckpointInv, TypeOK', NEW packet \in inFlight, handleCheckpoint(packet)
    PROVE  CheckpointInv'
<1>1. packet.to \in Nodes /\ packet.message \in Checkpoint /\ packet.message \in sentCheckpoints
    BY PacketType DEF CheckpointInv, TypeOK, VotesSent, handleCheckpoint, Delivered
<1>2. UNCHANGED <<sentCheckpoints, rpcs>> /\ inFlight' \subseteq inFlight
    BY DEF handleCheckpoint
<1>3. handleCheckpointNoValidation(packet.to, packet.message, snapshots[packet.to])
    BY DEF handleCheckpoint
<1>. QED
    BY <1>1, <1>2, <1>3, VoteCheckpoint

\* handleRecvSnapshot preserves the invariant: a node votes for what it broadcasts.
LEMMA handleRecvSnapshotCheckpoint ==
    ASSUME CheckpointInv, TypeOK', NEW n \in Nodes, handleRecvSnapshot(n)
    PROVE  CheckpointInv'
<1>. DEFINE message == [number |-> Head(snapshots[n]).number,
                        snapshot |-> Head(snapshots[n]).snapshot, node |-> n]
<1>1. snapshots[n] \in Seq(CheckpointProof) /\ snapshots[n] # <<>>
    BY DEF CheckpointInv, TypeOK, KeyType, handleRecvSnapshot
<1>2. Head(snapshots[n]) \in CheckpointProof
    BY <1>1
<1>3. message \in Checkpoint
    BY <1>2 DEF CheckpointProof, Checkpoint
<1>4. /\ handleCheckpointNoValidation(n, message, Tail(snapshots[n]))
      /\ sentCheckpoints' = sentCheckpoints \cup {message}
      /\ inFlight' = inFlight \cup Broadcast("Checkpoint", n, message)
      /\ UNCHANGED rpcs
    BY DEF handleRecvSnapshot
<1>. HIDE DEF message
<1>5. \A packet \in inFlight' : packet \in inFlight \/ packet.message = message
    BY <1>4 DEF Broadcast
<1>. QED
    BY <1>3, <1>4, <1>5, VoteCheckpoint

-----------------------------------------------------------------------------
\* SendHeartbeat preserves the invariant: a proof it sends is the node's own checkpoint.
LEMMA SendHeartbeatCheckpoint ==
    ASSUME CheckpointInv, TypeOK', NEW n \in Nodes, SendHeartbeat(n)
    PROVE  CheckpointInv'
<1>1. UNCHANGED <<checkpointVars, sentCheckpoints, sequenceNumber, inFlight>>
    BY DEF SendHeartbeat, ledgerVars
<1>2. UNCHANGED mainLoop \/ mainLoop' = [mainLoop EXCEPT ![n] = "panicked"]
    BY DEF SendHeartbeat
<1>3. \A p \in Nodes : mainLoop'[p] = "running" => mainLoop[p] = "running"
    BY <1>2 DEF CheckpointInv, TypeOK, ProcessType
<1>4. \A p \in Nodes : sequenceNumber[p] <= sequenceNumber'[p]
    BY <1>1, BoundsAssumption DEF CheckpointInv, TypeOK, LedgerType
<1>5. CertifiedBy(sentCheckpoints, lastCheckpoint[n])
    BY DEF CheckpointInv, NodesSound, Sound
<1>6. ASSUME NEW p \in Nodes, HeartbeatRpc(n, p).kind = "CheckpointProof"
      PROVE  Signed(sentCheckpoints, HeartbeatRpc(n, p).body)
    <2>1. /\ ~Resends(n, p) /\ caughtUp[n][p] # 0 /\ caughtUp[n][p] # sequenceNumber[n]
          /\ HeartbeatRpc(n, p).body = lastCheckpoint[n]
        BY <1>6 DEF HeartbeatRpc, StartRpc
    <2>2. caughtUp[n][p] \in 0..MaxSeq /\ lastCheckpoint[n].number.seqNumber \in 0..MaxSeq
        BY DEF CheckpointInv, TypeOK, LeaderType, CheckpointType, CheckpointProof, SlotIds
    <2>3. lastCheckpoint[n].number.seqNumber # 0
        BY <2>1, <2>2, BoundsAssumption DEF Resends
    <2>4. lastCheckpoint[n].number # SlotId(0, 0)
        BY <2>3 DEF SlotId
    <2>. QED
        BY <1>5, <2>1, <2>4 DEF CertifiedBy
<1>7. PICK visited \in SUBSET Linked("Heartbeat", n) :
         rpcs' = rpcs \cup {HeartbeatRpc(n, p) : p \in visited}
    BY DEF SendHeartbeat
<1>8. \A p \in visited : p \in Nodes
    BY DEF Linked
<1>9. \A rpc \in rpcs' :
         \/ rpc \in rpcs \/ rpc.kind # "CheckpointProof"
         \/ Signed(sentCheckpoints', rpc.body)
    BY <1>1, <1>6, <1>7, <1>8
<1>. QED
    BY <1>1, <1>3, <1>4, <1>9, NoCheckpoint

\* The progress of an RPC, but for its handling, preserves the invariant.
LEMMA RpcMovesCheckpoint ==
    ASSUME CheckpointInv, TypeOK', NEW rpc \in rpcs,
           RpcArrives(rpc) \/ RpcReturns(rpc) \/ RpcTimesOut(rpc)
    PROVE  CheckpointInv'
<1>1. UNCHANGED <<checkpointVars, sentCheckpoints, sequenceNumber, mainLoop, inFlight>>
    BY DEF RpcArrives, RpcReturns, RpcTimesOut, rpcFrame, ledgerVars
<1>2. rpc \in Rpc
    BY DEF CheckpointInv, TypeOK
<1>3. \A r \in rpcs' : \E old \in rpcs : r.kind = old.kind /\ r.body = old.body
    <2>1. /\ [rpc EXCEPT !.stage = "arrived", !.seq = Answer(rpc)].kind = rpc.kind
          /\ [rpc EXCEPT !.stage = "arrived", !.seq = Answer(rpc)].body = rpc.body
          /\ [rpc EXCEPT !.stage = "orphan"].kind = rpc.kind
          /\ [rpc EXCEPT !.stage = "orphan"].body = rpc.body
        BY <1>2 DEF Rpc, RpcOf
    <2>2. \A r \in rpcs' : \/ r \in rpcs
                           \/ r = [rpc EXCEPT !.stage = "arrived", !.seq = Answer(rpc)]
                           \/ r = [rpc EXCEPT !.stage = "orphan"]
        BY DEF RpcArrives, RpcReturns, RpcTimesOut
    <2>. QED
        BY <2>1, <2>2
<1>4. \A p \in Nodes : sequenceNumber[p] <= sequenceNumber'[p]
    BY <1>1, BoundsAssumption DEF CheckpointInv, TypeOK, LedgerType
<1>. QED
    BY <1>1, <1>3, <1>4, NoCheckpoint

\* handleNewView preserves the invariant: a backup enters at its last checkpoint.
LEMMA handleNewViewCheckpoint ==
    ASSUME CheckpointInv, TypeOK', NEW n \in Nodes, NEW nv, handleNewView(n, nv),
           \A r \in rpcs' : \E old \in rpcs : r.kind = old.kind /\ r.body = old.body
    PROVE  CheckpointInv'
<1>1. TypeOK /\ \A p \in Nodes : sequenceNumber[p] \in Int
    BY BoundsAssumption DEF CheckpointInv, TypeOK, LedgerType
<1>2. UNCHANGED <<checkpointVars, sentCheckpoints, mainLoop>>
    BY DEF handleNewView, viewChangeFrame
<1>3. CASE EnterAsBackup(n, nv)
    <2>1. enterNewView(n, nv.viewNumber)
        BY <1>3 DEF EnterAsBackup
    <2>2. \A packet \in inFlight' : packet \in inFlight \/ packet.kind = "Prepare"
        BY <1>3, BroadcastKind DEF EnterAsBackup
    <2>. QED
        BY <1>1, <1>2, <2>1, <2>2, enterNewViewReaches, NoCheckpoint
<1>4. CASE UNCHANGED <<sequenceNumber, inFlight>>
    BY <1>1, <1>2, <1>4, NoCheckpoint
<1>. QED
    BY <1>3, <1>4 DEF handleNewView

\* handleCheckpointProof preserves the invariant: the proof it is sent is certified.
LEMMA handleCheckpointProofCheckpoint ==
    ASSUME CheckpointInv, TypeOK', NEW n \in Nodes, NEW proof \in CheckpointProof,
           handleCheckpointProof(n, proof), Signed(sentCheckpoints, proof),
           \A r \in rpcs' : \E old \in rpcs : r.kind = old.kind /\ r.body = old.body
    PROVE  CheckpointInv'
<1>1. TypeOK /\ ReachedCheckpoint /\ pendingCheckpoints[n] \in [SlotIds -> Pending]
    BY DEF CheckpointInv, TypeOK, CheckpointType
<1>2. /\ Checkpointed(n, proof, pendingCheckpoints[n], snapshots[n])
      /\ UNCHANGED <<sentCheckpoints, inFlight>>
    BY DEF handleCheckpointProof
<1>3. Sound(pendingCheckpoints[n], lastCheckpoint[n], sentCheckpoints)
    BY DEF CheckpointInv, NodesSound
<1>4. /\ Sound(pendingCheckpoints'[n], lastCheckpoint'[n], sentCheckpoints)
      /\ mainLoop'[n] = "running" /\ mainLoop[n] = "running" =>
             lastCheckpoint'[n].number.seqNumber <= sequenceNumber'[n]
      /\ \A p \in Nodes \ {n} :
             UNCHANGED <<pendingCheckpoints[p], lastCheckpoint[p], sequenceNumber[p], mainLoop[p]>>
    <2>1. CertifiedBy(sentCheckpoints, proof)
        BY DEF CertifiedBy
    <2>. QED
        BY <1>1, <1>2, <1>3, <2>1, CheckpointedSound
<1>5. mainLoop'[n] = "running" => mainLoop[n] = "running"
    <2>1. UNCHANGED mainLoop \/ mainLoop' = [mainLoop EXCEPT ![n] = "blocked"]
        BY <1>2 DEF Checkpointed, CatchUpTo
    <2>. QED
        BY <1>1, <2>1 DEF TypeOK, ProcessType
<1>6. \A p \in Nodes : mainLoop'[p] = "running" =>
         lastCheckpoint'[p].number.seqNumber <= sequenceNumber'[p]
    BY <1>1, <1>4, <1>5 DEF ReachedCheckpoint, Running
<1>7. \A p \in Nodes :
         \/ UNCHANGED <<pendingCheckpoints[p], lastCheckpoint[p]>>
         \/ Sound(pendingCheckpoints'[p], lastCheckpoint'[p], sentCheckpoints')
    BY <1>2, <1>4
<1>. QED
    BY <1>2, <1>6, <1>7, CheckpointStep

\* Handling a heartbeat RPC preserves the invariant.
LEMMA RpcHandledCheckpoint ==
    ASSUME CheckpointInv, TypeOK', NEW rpc \in rpcs, RpcHandled(rpc)
    PROVE  CheckpointInv'
<1>1. rpc \in Rpc
    BY DEF CheckpointInv, TypeOK
<1>2. \A r \in rpcs' : \E old \in rpcs : r.kind = old.kind /\ r.body = old.body
    <2>1. /\ [rpc EXCEPT !.stage = "replied"].kind = rpc.kind
          /\ [rpc EXCEPT !.stage = "replied"].body = rpc.body
        BY <1>1 DEF Rpc, RpcOf
    <2>2. \A r \in rpcs' : r \in rpcs \/ r = [rpc EXCEPT !.stage = "replied"]
        BY DEF RpcHandled
    <2>. QED
        BY <2>1, <2>2
<1>3. CASE rpc.kind = "NewView" /\ handleNewView(rpc.to, rpc.body)
    BY <1>1, <1>2, <1>3, RpcType, handleNewViewCheckpoint
<1>4. CASE rpc.kind = "PrePrepare" /\ handlePrePrepare(rpc.to, rpc.body, {})
    <2>1. UNCHANGED <<checkpointVars, sentCheckpoints, mainLoop, sequenceNumber>>
        BY <1>4 DEF handlePrePrepare, normalFrame
    <2>2. \A packet \in inFlight' : packet \in inFlight \/ packet.kind # "Checkpoint"
        BY <1>1, <1>4, RpcType, NormalBroadcasts
    <2>3. \A n \in Nodes : sequenceNumber[n] \in Int
        BY BoundsAssumption DEF CheckpointInv, TypeOK, LedgerType
    <2>. QED
        BY <1>2, <2>1, <2>2, <2>3, NoCheckpoint
<1>5. CASE rpc.kind = "CheckpointProof" /\ handleCheckpointProof(rpc.to, rpc.body)
    <2>1. Signed(sentCheckpoints, rpc.body)
        BY <1>5 DEF CheckpointInv, ProofsCertified
    <2>. QED
        BY <1>1, <1>2, <1>5, <2>1, RpcType, handleCheckpointProofCheckpoint
<1>. QED
    BY <1>3, <1>4, <1>5 DEF RpcHandled

-----------------------------------------------------------------------------
\* The invariant holds of a cluster that has just started.
LEMMA CheckpointInit == Init => CheckpointInv
<1>. SUFFICES ASSUME Init PROVE CheckpointInv
    OBVIOUS
<1>1. TypeOK
    BY InitType
<1>2. NodesSound
    BY DEF Init, NodesSound, Sound, CertifiedBy, EmptyPending
<1>3. ReachedCheckpoint
    BY DEF Init, ReachedCheckpoint, SlotId
<1>. QED
    BY <1>1, <1>2, <1>3 DEF Init, CheckpointInv, VotesSent, ProofsCertified

\* Every step preserves the invariant.
LEMMA CheckpointNext == CheckpointInv /\ [Next]_vars => CheckpointInv'
<1>. SUFFICES ASSUME CheckpointInv, [Next]_vars
              PROVE  CheckpointInv'
    OBVIOUS
<1>1. TypeOK'
    BY TypeStep DEF CheckpointInv
<1>2. CASE UNCHANGED vars
    <2>1. UNCHANGED <<checkpointVars, sentCheckpoints, sequenceNumber, mainLoop, inFlight, rpcs>>
        BY <1>2 DEF vars, ledgerVars
    <2>2. \A n \in Nodes : sequenceNumber[n] <= sequenceNumber'[n]
        BY <2>1, BoundsAssumption DEF CheckpointInv, TypeOK, LedgerType
    <2>. QED
        BY <1>1, <2>1, <2>2, NoCheckpoint
<1>. QED
    BY <1>1, <1>2, NormalCheckpoint, handleCommitCheckpoint, handleCheckpointCheckpoint,
        handleViewChangeCheckpoint, handleRecvSnapshotCheckpoint, SendHeartbeatCheckpoint,
        DebugTimeoutCheckpoint, RpcMovesCheckpoint, RpcHandledCheckpoint
        DEF Next

\* The invariant holds in every behaviour.
LEMMA CheckpointInvariant == Spec => []CheckpointInv
BY CheckpointInit, CheckpointNext, PTL DEF Spec

\* Whatever the votes' order and whoever relays them, a checkpoint a node relies
\* on was signed by 2f+1 nodes (isStable, handleCheckpointProof).
THEOREM CheckpointCertificateHolds == Spec => []CheckpointCertificate
<1>1. CheckpointInv => CheckpointCertificate
    BY DEF CheckpointInv, NodesSound, Sound, CertifiedBy, Signed, CheckpointCertificate
<1>. QED
    BY <1>1, CheckpointInvariant, PTL

\* No node keeps a vote for a checkpoint it has passed (checkpointed()).
THEOREM PendingAfterStableHolds == Spec => []PendingAfterStable
<1>1. CheckpointInv => PendingAfterStable
    BY DEF CheckpointInv, NodesSound, Sound, PendingAfterStable
<1>. QED
    BY <1>1, CheckpointInvariant, PTL

\* A node whose main loop runs has executed up to its checkpoint: checkpointed()
\* and enterNewView bring the sequence number along.
THEOREM ReachedCheckpointHolds == Spec => []ReachedCheckpoint
<1>1. CheckpointInv => ReachedCheckpoint
    BY DEF CheckpointInv
<1>. QED
    BY <1>1, CheckpointInvariant, PTL

-----------------------------------------------------------------------------
\* checkpointed() does not go back: it returns early if the node has passed it.
LEMMA CheckpointedForward ==
    ASSUME TypeOK, NEW n \in Nodes, NEW checkpoint, checkpoint.number \in SlotIds,
           NEW pending, NEW queue, Checkpointed(n, checkpoint, pending, queue)
    PROVE  \A p \in Nodes : BeforeOrEqual(lastCheckpoint[p].number, lastCheckpoint'[p].number)
<1>1. /\ lastCheckpoint \in [Nodes -> CheckpointProof]
      /\ \A p \in Nodes : lastCheckpoint[p].number \in SlotIds
    BY DEF TypeOK, CheckpointType, CheckpointProof
<1>2. \A id \in SlotIds : BeforeOrEqual(id, id)
    BY BoundsAssumption DEF SlotIds, BeforeOrEqual
<1>3. CASE UNCHANGED lastCheckpoint
    BY <1>1, <1>2, <1>3
<1>4. CASE /\ ~IsPassed(n, checkpoint.number)
           /\ lastCheckpoint' = [lastCheckpoint EXCEPT ![n] = checkpoint]
    <2>1. BeforeOrEqual(lastCheckpoint[n].number, checkpoint.number)
        BY <1>1, <1>4, BeforeTotal DEF IsPassed
    <2>. QED
        BY <1>1, <1>2, <1>4, <2>1
<1>. QED
    BY <1>3, <1>4 DEF Checkpointed

\* No step moves a checkpoint back.
LEMMA CheckpointForward ==
    ASSUME TypeOK, [Next]_vars
    PROVE  \A p \in Nodes : BeforeOrEqual(lastCheckpoint[p].number, lastCheckpoint'[p].number)
<1>1. CASE UNCHANGED lastCheckpoint
    BY <1>1, BoundsAssumption DEF TypeOK, CheckpointType, CheckpointProof, SlotIds, BeforeOrEqual
<1>2. ASSUME NEW n \in Nodes, NEW message, NEW queue, message.number \in SlotIds,
             handleCheckpointNoValidation(n, message, queue)
      PROVE  \A p \in Nodes : BeforeOrEqual(lastCheckpoint[p].number, lastCheckpoint'[p].number)
    BY <1>1, <1>2, CheckpointedForward DEF handleCheckpointNoValidation, checkpointVars
<1>3. ASSUME NEW packet \in inFlight, handleCheckpoint(packet)
      PROVE  \A p \in Nodes : BeforeOrEqual(lastCheckpoint[p].number, lastCheckpoint'[p].number)
    <2>1. packet.to \in Nodes /\ packet.message.number \in SlotIds
        BY <1>3, PacketType DEF TypeOK, Checkpoint, handleCheckpoint, Delivered
    <2>. QED
        BY <1>2, <1>3, <2>1 DEF handleCheckpoint
<1>4. ASSUME NEW n \in Nodes, handleRecvSnapshot(n)
      PROVE  \A p \in Nodes : BeforeOrEqual(lastCheckpoint[p].number, lastCheckpoint'[p].number)
    <2>1. snapshots[n] \in Seq(CheckpointProof) /\ snapshots[n] # <<>>
        BY <1>4 DEF TypeOK, KeyType, handleRecvSnapshot
    <2>2. Head(snapshots[n]) \in CheckpointProof
        BY <2>1
    <2>3. Head(snapshots[n]).number \in SlotIds
        BY <2>2 DEF CheckpointProof
    <2>. QED
        BY <1>2, <1>4, <2>3 DEF handleRecvSnapshot
<1>5. ASSUME NEW rpc \in rpcs, RpcHandled(rpc)
      PROVE  \A p \in Nodes : BeforeOrEqual(lastCheckpoint[p].number, lastCheckpoint'[p].number)
    <2>1. CASE rpc.kind = "CheckpointProof" /\ handleCheckpointProof(rpc.to, rpc.body)
        <3>1. rpc.to \in Nodes /\ rpc.body.number \in SlotIds
            BY <2>1, RpcType DEF TypeOK, CheckpointProof
        <3>. QED
            BY <2>1, <3>1, CheckpointedForward DEF handleCheckpointProof
    <2>. QED
        BY <1>1, <1>5, <2>1 DEF RpcHandled, handleNewView, handlePrePrepare, viewChangeFrame,
            normalFrame, checkpointVars
<1>6. ASSUME NEW packet \in inFlight, \/ ClientRequest(packet) \/ PrePrepareReceived(packet)
                                      \/ handlePrepare(packet) \/ handleCommit(packet)
                                      \/ handleViewChange(packet)
      PROVE  UNCHANGED lastCheckpoint
    BY <1>6 DEF ClientRequest, handleClientRequest, PrePrepareReceived, handlePrePrepare,
        handlePrepare, handleCommit, handleViewChange, normalFrame, viewChangeFrame, checkpointVars
<1>7. ASSUME NEW n \in Nodes, \/ \E r \in Requests : Propose(n, r)
                              \/ SendHeartbeat(n) \/ Timeout(n) \/ DebugDown(n) \/ DebugUp(n)
      PROVE  UNCHANGED lastCheckpoint
    BY <1>7 DEF Propose, handleClientRequest, SendHeartbeat, Timeout, DebugDown, DebugUp,
        debugFrame, normalFrame, checkpointVars
<1>8. ASSUME NEW rpc \in rpcs, RpcArrives(rpc) \/ RpcReturns(rpc) \/ RpcTimesOut(rpc)
      PROVE  UNCHANGED lastCheckpoint
    BY <1>8 DEF RpcArrives, RpcReturns, RpcTimesOut, rpcFrame, checkpointVars
<1>. QED
    BY <1>1, <1>3, <1>4, <1>5, <1>6, <1>7, <1>8 DEF Next, vars, checkpointVars

\* No vote and no late heartbeat moves a node's checkpoint back.
THEOREM CheckpointMonotonicHolds == Spec => CheckpointMonotonic
<1>1. ASSUME TypeOK, [Next]_vars
      PROVE  [\A n \in Nodes :
                 BeforeOrEqual(lastCheckpoint[n].number, lastCheckpoint'[n].number)]_vars
    BY <1>1, CheckpointForward
<1>. QED
    BY <1>1, TypeCorrect, PTL DEF Spec, CheckpointMonotonic
==============================================================================
