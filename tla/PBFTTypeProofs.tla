---------------------------- MODULE PBFTTypeProofs ----------------------------
(***************************************************************************)
(* TypeOK is an invariant of the cluster, whatever its size and bounds.    *)
(* The proof has one lemma per handler, which says that the handler        *)
(* preserves TypeOK, and lemmas about the operators handlers share.        *)
(***************************************************************************)
EXTENDS PBFT, TLAPS

\* SlotId builds a slot number of the two numbers it is given (SlotId, common.go).
LEMMA SlotIdType ==
    ASSUME NEW v \in 0..MaxView, NEW s \in 0..MaxSeq
    PROVE  /\ SlotId(v, s) \in SlotIds
           /\ SlotId(v, s).viewNumber = v /\ SlotId(v, s).seqNumber = s
BY DEF SlotId, SlotIds

\* The two numbers of a slot number are within the bounds.
LEMMA SlotIdsType ==
    ASSUME NEW id \in SlotIds
    PROVE  id.viewNumber \in 0..MaxView /\ id.seqNumber \in 0..MaxSeq
BY DEF SlotIds

\* Larger is the maximum of two numbers.
LEMMA LargerType ==
    ASSUME NEW x \in Int, NEW y \in Int
    PROVE  Larger(x, y) \in Int /\ Larger(x, y) >= x /\ Larger(x, y) >= y
           /\ (Larger(x, y) = x \/ Larger(x, y) = y)
BY DEF Larger

\* What broadcast() sends of a message of the right type are packets.
LEMMA BroadcastType ==
    ASSUME NEW kind, NEW Body, NEW n, NEW message \in Body
    PROVE  Broadcast(kind, n, message) \subseteq PacketOf(kind, Body)
<1>. SUFFICES ASSUME NEW p \in Linked(kind, n)
              PROVE  [kind |-> kind, to |-> p, message |-> message, accepted |-> FALSE]
                        \in PacketOf(kind, Body)
    BY DEF Broadcast
<1>1. p \in Nodes
    BY DEF Linked
<1>2. FALSE \in BOOLEAN /\ kind \in {kind}
    OBVIOUS
<1>. QED
    BY <1>1, <1>2 DEF PacketOf

\* A packet is of one of the kinds that have an RPC of their own (node.go, 746-784).
LEMMA PacketKinds ==
    /\ PacketOf("ClientRequest", ForwardedRequest) \subseteq Packet
    /\ PacketOf("PrePrepare", PrePrepare) \subseteq Packet
    /\ PacketOf("Prepare", Prepare) \subseteq Packet
    /\ PacketOf("Commit", Commit) \subseteq Packet
    /\ PacketOf("Checkpoint", Checkpoint) \subseteq Packet
    /\ PacketOf("ViewChange", ViewChange) \subseteq Packet
BY DEF Packet

\* The kind of a packet decides the type of the message it carries.
LEMMA PacketType ==
    ASSUME NEW packet \in Packet
    PROVE  /\ packet.to \in Nodes
           /\ packet.kind = "ClientRequest" => packet.message \in ForwardedRequest
           /\ packet.kind = "PrePrepare" => packet.message \in PrePrepare
           /\ packet.kind = "Prepare" => packet.message \in Prepare
           /\ packet.kind = "Commit" => packet.message \in Commit
           /\ packet.kind = "Checkpoint" => packet.message \in Checkpoint
           /\ packet.kind = "ViewChange" => packet.message \in ViewChange
           /\ [packet EXCEPT !.accepted = TRUE] \in Packet
BY DEF Packet, PacketOf

\* The kind of a heartbeat RPC decides the type of its body.
LEMMA RpcType ==
    ASSUME NEW rpc \in Rpc
    PROVE  /\ rpc.from \in Nodes /\ rpc.to \in Nodes /\ rpc.seq \in 0..MaxSeq
           /\ rpc.kind = "NewView" => rpc.body \in NewView
           /\ rpc.kind = "PrePrepare" => rpc.body \in PrePrepare
           /\ rpc.kind = "CheckpointProof" => rpc.body \in CheckpointProof
           /\ rpc.kind \in {"NewView", "PrePrepare", "CheckpointProof"}
BY DEF Rpc, RpcOf

\* A heartbeat RPC stays one as it moves on.
LEMMA RpcProgressType ==
    ASSUME NEW rpc \in Rpc, NEW s \in 0..MaxSeq
    PROVE  /\ [rpc EXCEPT !.stage = "arrived", !.seq = s] \in Rpc
           /\ [rpc EXCEPT !.stage = "replied"] \in Rpc
           /\ [rpc EXCEPT !.stage = "orphan"] \in Rpc
BY DEF Rpc, RpcOf

\* What the normal case makes of a slot is a slot.
LEMMA SlotType ==
    ASSUME NEW slot \in Slot, NEW p \in Nodes
    PROVE  /\ EmptySlot \in Slot
           /\ CountPrepare(slot, p) \in Slot /\ CountCommit(slot, p) \in Slot
           /\ [slot EXCEPT !.committed = TRUE] \in Slot
           /\ \A r \in Proposals, d \in Proposals \cup {Nil} :
                 ProposedSlot(r, d) \in Slot /\ AcceptedSlot(p, slot, r, d) \in Slot
BY DEF Slot, EmptySlot, CountPrepare, CountCommit, ProposedSlot, AcceptedSlot

\* StartNode leaves every field of a node within its type.
THEOREM InitType == Init => TypeOK
<1>. SUFFICES ASSUME Init PROVE TypeOK
    OBVIOUS
<1>. USE NodesAssumption, BoundsAssumption, LeaderForAssumption
<1>1. EmptySlot \in Slot
    BY DEF EmptySlot, Slot
<1>2. SlotId(0, 0) \in SlotIds
    BY SlotIdType
<1>3. <<>> \in Snapshot
    BY DEF Snapshot
<1>4. EmptyPending \in Pending
    BY <1>3 DEF EmptyPending, Pending
<1>5. LedgerType
    BY <1>1 DEF Init, LedgerType
<1>6. ChangeType
    BY DEF Init, ChangeType
<1>7. CheckpointType
    BY <1>2, <1>3, <1>4 DEF Init, CheckpointType, CheckpointProof
<1>8. LeaderType
    BY DEF Init, LeaderType, NewView
<1>9. ProcessType /\ KeyType
    BY <1>3 DEF Init, ProcessType, KeyType
<1>. QED
    BY <1>5, <1>6, <1>7, <1>8, <1>9 DEF Init, TypeOK, SentType

-----------------------------------------------------------------------------
\* The variables checkpointed() may assign.
CheckpointedTypes ==
    /\ CheckpointType
    /\ log \in [Nodes -> [SlotIds -> Slot]]
    /\ sequenceNumber \in [Nodes -> 1..MaxSeq]
    /\ store \in [Nodes -> Snapshot]
    /\ mainLoop \in [Nodes -> {"running", "panicked", "blocked"}]

\* The part of TypeOK that checkpointed() needs.
LEMMA CheckpointedTypesNow == TypeOK => CheckpointedTypes
BY DEF TypeOK, CheckpointedTypes, LedgerType, KeyType, ProcessType

\* Handing a snapshot to the KeyNode keeps the types, whether it blocks or not.
LEMMA CatchUpToType ==
    ASSUME CheckpointedTypes, NEW n \in Nodes, NEW checkpoint \in CheckpointProof, NEW queue,
           CatchUpTo(n, checkpoint, queue)
    PROVE  /\ sequenceNumber' \in [Nodes -> 1..MaxSeq]
           /\ store' \in [Nodes -> Snapshot]
           /\ mainLoop' \in [Nodes -> {"running", "panicked", "blocked"}]
<1>1. checkpoint.snapshot \in Snapshot /\ checkpoint.number.seqNumber \in 0..MaxSeq
    BY DEF CheckpointProof, SlotIds
<1>2. sequenceNumber[n] \in 1..MaxSeq
    BY DEF CheckpointedTypes
<1>3. IsBehind(n, checkpoint.number) => checkpoint.number.seqNumber \in 1..MaxSeq
    BY <1>1, <1>2, BoundsAssumption DEF IsBehind
<1>. QED
    BY <1>1, <1>3 DEF CatchUpTo, CheckpointedTypes

\* checkpointed() keeps the types of what it changes.
LEMMA CheckpointedType ==
    ASSUME CheckpointedTypes, NEW n \in Nodes, NEW checkpoint \in CheckpointProof, NEW queue,
           NEW pending \in [SlotIds -> Pending],
           Checkpointed(n, checkpoint, pending, queue)
    PROVE  CheckpointedTypes'
<1>1. EmptySlot \in Slot /\ EmptyPending \in Pending
    BY DEF EmptySlot, Slot, EmptyPending, Pending, Snapshot
<1>2. CASE IsPassed(n, checkpoint.number)
    BY <1>2 DEF Checkpointed, CheckpointedTypes, CheckpointType
<1>3. CASE ~IsPassed(n, checkpoint.number)
    <2>. DEFINE flushed == Flushed(pending, checkpoint.number)
                kept == [id \in SlotIds |-> IF id \in flushed THEN EmptyPending ELSE pending[id]]
                slots == [id \in SlotIds |-> IF id \in flushed THEN EmptySlot ELSE log[n][id]]
    <2>0. log[n] \in [SlotIds -> Slot]
        BY DEF CheckpointedTypes
    <2>1a. kept \in [SlotIds -> Pending] /\ slots \in [SlotIds -> Slot]
        BY <1>1, <2>0
    <2>2a. /\ lastCheckpoint' = [lastCheckpoint EXCEPT ![n] = checkpoint]
          /\ pendingCheckpoints' = [pendingCheckpoints EXCEPT ![n] = kept]
          /\ log' = [log EXCEPT ![n] = slots]
        BY <1>3 DEF Checkpointed
    <2>. HIDE DEF kept, slots
    <2>1. CheckpointType'
        BY <2>1a, <2>2a DEF CheckpointedTypes, CheckpointType
    <2>2. log' \in [Nodes -> [SlotIds -> Slot]]
        BY <2>1a, <2>2a DEF CheckpointedTypes
    <2>3. CatchUpTo(n, checkpoint, queue)
        BY <1>3 DEF Checkpointed
    <2>. QED
        BY <2>1, <2>2, <2>3, CatchUpToType DEF CheckpointedTypes
<1>. QED
    BY <1>2, <1>3

\* A vote leaves the map of pending checkpoints in its type (handleCheckpointNoValidation).
LEMMA VotedType ==
    ASSUME NEW pending \in [SlotIds -> Pending], NEW message \in Checkpoint
    PROVE  Voted(pending, message) \in [SlotIds -> Pending]
<1>1. message.number \in SlotIds /\ message.snapshot \in Snapshot /\ message.node \in Nodes
    BY DEF Checkpoint
<1>2. pending[message.number] \in Pending
    BY <1>1
<1>. QED
    BY <1>1, <1>2 DEF Voted, Pending

\* handleCheckpointNoValidation keeps the types of what it changes.
LEMMA NoValidationType ==
    ASSUME CheckpointedTypes, NEW n \in Nodes, NEW message \in Checkpoint, NEW queue,
           handleCheckpointNoValidation(n, message, queue)
    PROVE  CheckpointedTypes'
<1>. DEFINE number == message.number
            voted == Voted(pendingCheckpoints[n], message)
<1>1. pendingCheckpoints[n] \in [SlotIds -> Pending]
    BY DEF CheckpointedTypes, CheckpointType
<1>2. voted \in [SlotIds -> Pending]
    BY <1>1, VotedType
<1>3. [number |-> number, snapshot |-> voted[number].snapshot] \in CheckpointProof
    BY <1>2 DEF CheckpointProof, Checkpoint, Pending
<1>4. CASE UNCHANGED <<checkpointVars, log, sequenceNumber, store, mainLoop>>
    BY <1>4 DEF CheckpointedTypes, CheckpointType, checkpointVars
<1>5. CASE /\ pendingCheckpoints' = [pendingCheckpoints EXCEPT ![n] = voted]
           /\ UNCHANGED <<lastCheckpoint, log, sequenceNumber, store, mainLoop>>
    BY <1>2, <1>5 DEF CheckpointedTypes, CheckpointType
<1>6. CASE Checkpointed(n, [number |-> number, snapshot |-> voted[number].snapshot],
                        voted, queue)
    BY <1>2, <1>3, <1>6, CheckpointedType
<1>. QED
    BY <1>4, <1>5, <1>6 DEF handleCheckpointNoValidation

\* handleCheckpoint preserves the types.
LEMMA handleCheckpointType ==
    ASSUME TypeOK, NEW packet \in inFlight, handleCheckpoint(packet)
    PROVE  TypeOK'
<1>1. packet.to \in Nodes /\ packet.message \in Checkpoint
    BY PacketType DEF TypeOK, handleCheckpoint, Delivered
<1>2. CheckpointedTypes'
    BY <1>1, CheckpointedTypesNow, NoValidationType DEF handleCheckpoint
<1>. QED
    BY <1>2 DEF handleCheckpoint, checkpointFrame, changeVars, leaderVars, normalMessages,
        changeMessageVars, TypeOK, CheckpointedTypes, LedgerType, ChangeType, LeaderType,
        ProcessType, KeyType, SentType

\* handleRecvSnapshot preserves the types.
LEMMA handleRecvSnapshotType ==
    ASSUME TypeOK, NEW n \in Nodes, handleRecvSnapshot(n)
    PROVE  TypeOK'
<1>. DEFINE message == [number |-> Head(snapshots[n]).number,
                        snapshot |-> Head(snapshots[n]).snapshot, node |-> n]
<1>1. snapshots[n] \in Seq(CheckpointProof) /\ snapshots[n] # <<>>
    BY DEF TypeOK, KeyType, handleRecvSnapshot
<1>2. Head(snapshots[n]) \in CheckpointProof /\ Tail(snapshots[n]) \in Seq(CheckpointProof)
    BY <1>1
<1>3. message \in Checkpoint
    BY <1>2 DEF CheckpointProof, Checkpoint
<1>4. CheckpointedTypes'
    BY <1>3, CheckpointedTypesNow, NoValidationType DEF handleRecvSnapshot
<1>5. snapshots' \in [Nodes -> Seq(CheckpointProof)]
    BY <1>2 DEF TypeOK, KeyType, handleRecvSnapshot
<1>6. inFlight' \subseteq Packet
    BY <1>3, BroadcastType, PacketKinds DEF TypeOK, handleRecvSnapshot
<1>7. sentCheckpoints' \subseteq Checkpoint
    BY <1>3 DEF TypeOK, SentType, handleRecvSnapshot
<1>. QED
    BY <1>4, <1>5, <1>6, <1>7 DEF handleRecvSnapshot, checkpointFrame, changeVars, leaderVars,
        normalMessages, changeMessageVars, TypeOK, CheckpointedTypes, LedgerType, ChangeType,
        LeaderType, ProcessType, KeyType, SentType

\* handleCheckpointProof preserves the types, given those of its caller's RPCs.
LEMMA handleCheckpointProofType ==
    ASSUME TypeOK, NEW n \in Nodes, NEW proof \in CheckpointProof,
           handleCheckpointProof(n, proof), rpcs' \subseteq Rpc
    PROVE  TypeOK'
<1>1. CheckpointedTypes'
    BY CheckpointedTypesNow, CheckpointedType
        DEF handleCheckpointProof, TypeOK, CheckpointType
<1>2. timerArmed' \in [Nodes -> BOOLEAN]
    BY DEF handleCheckpointProof, TypeOK, ProcessType, IsPrimary
<1>. QED
    BY <1>1, <1>2 DEF handleCheckpointProof, checkpointFrame, changeVars, leaderVars,
        normalMessages, changeMessageVars, TypeOK, CheckpointedTypes, LedgerType, ChangeType,
        LeaderType, ProcessType, KeyType, SentType

-----------------------------------------------------------------------------
\* Whatever is found in the log is a slot.
LEMMA SlotOfType ==
    ASSUME TypeOK, NEW n \in Nodes, NEW id \in SlotIds
    PROVE  log[n] \in [SlotIds -> Slot] /\ log[n][id] \in Slot
BY DEF TypeOK, LedgerType

\* The log keeps its type when a slot replaces another.
LEMMA LogUpdateType ==
    ASSUME TypeOK, NEW n \in Nodes, NEW id \in SlotIds, NEW slot \in Slot
    PROVE  [log EXCEPT ![n][id] = slot] \in [Nodes -> [SlotIds -> Slot]]
BY DEF TypeOK, LedgerType

\* handleClientRequest preserves the types, whether it proposes, forwards or drops.
LEMMA handleClientRequestType ==
    ASSUME TypeOK, NEW n \in Nodes, NEW r \in Requests, NEW done,
           handleClientRequest(n, r, done)
    PROVE  TypeOK'
<1>1. requests' \in [Nodes -> SUBSET Requests]
    BY DEF handleClientRequest, TypeOK, LedgerType
<1>2. r \in Proposals
    BY DEF Proposals
<1>3. CASE PrimaryProposes(n, r, done)
    <2>. DEFINE id == SlotId(viewNumber[n], NextNumber(n))
                pp == [number |-> id, digest |-> r, request |-> r, signer |-> n]
    <2>1. NextNumber(n) \in 1..MaxSeq /\ viewNumber[n] \in 0..MaxView
        BY <1>3, BoundsAssumption DEF PrimaryProposes, NextNumber, TypeOK, LedgerType
    <2>2. id \in SlotIds /\ id.seqNumber = NextNumber(n)
        BY <2>1, SlotIdType, BoundsAssumption
    <2>3. ProposedSlot(r, r) \in Slot
        BY <1>2 DEF ProposedSlot, EmptySlot, Slot
    <2>4. pp \in PrePrepare
        BY <1>2, <2>2 DEF PrePrepare
    <2>5. /\ issuedSequenceNumber' = [issuedSequenceNumber EXCEPT ![n] = id.seqNumber]
          /\ log' = [log EXCEPT ![n][id] = ProposedSlot(r, r)]
          /\ sentPrePrepares' = sentPrePrepares \cup {pp}
          /\ inFlight' = (inFlight \ done) \cup Broadcast("PrePrepare", n, pp)
        BY <1>3 DEF PrimaryProposes
    <2>. HIDE DEF id, pp
    <2>6. log' \in [Nodes -> [SlotIds -> Slot]]
        BY <2>2, <2>3, <2>5, LogUpdateType
    <2>7. issuedSequenceNumber' \in [Nodes -> 1..MaxSeq]
        BY <2>1, <2>2, <2>5 DEF TypeOK, LedgerType
    <2>8. sentPrePrepares' \subseteq PrePrepare /\ inFlight' \subseteq Packet
        BY <2>4, <2>5, BroadcastType, PacketKinds DEF TypeOK, SentType
    <2>. QED
        BY <1>1, <2>6, <2>7, <2>8 DEF handleClientRequest, normalFrame, leaderVars,
            checkpointVars, keyVars, TypeOK, LedgerType, ChangeType, CheckpointType, LeaderType,
            ProcessType, KeyType, SentType
<1>4. CASE BackupForwards(n, r, done)
    <2>1. [request |-> r, node |-> n] \in ForwardedRequest
        BY DEF ForwardedRequest
    <2>2. inFlight' \subseteq Packet
        BY <1>4, <2>1, BroadcastType, PacketKinds DEF BackupForwards, TypeOK
    <2>. QED
        BY <1>1, <1>4, <2>2 DEF BackupForwards, handleClientRequest, normalFrame, leaderVars,
            checkpointVars, keyVars, TypeOK, LedgerType, ChangeType, CheckpointType, LeaderType,
            ProcessType, KeyType, SentType
<1>. QED
    BY <1>3, <1>4 DEF handleClientRequest

\* The same for a request another node has forwarded.
LEMMA ClientRequestType ==
    ASSUME TypeOK, NEW packet \in inFlight, ClientRequest(packet)
    PROVE  TypeOK'
<1>1. packet.to \in Nodes /\ packet.message.request \in Requests
    BY PacketType DEF TypeOK, ClientRequest, Delivered, ForwardedRequest
<1>. QED
    BY <1>1, handleClientRequestType DEF ClientRequest

\* handlePrePrepare preserves the types, given those of its caller's RPCs.
LEMMA handlePrePrepareType ==
    ASSUME TypeOK, NEW n \in Nodes, NEW pp \in PrePrepare, NEW done,
           handlePrePrepare(n, pp, done), rpcs' \subseteq Rpc
    PROVE  TypeOK'
<1>1. /\ pp.number \in SlotIds /\ pp.request \in Proposals
      /\ pp.digest \in Proposals \cup {Nil} /\ pp.number.seqNumber \in 0..MaxSeq
    BY DEF PrePrepare, SlotIds
<1>2. timerArmed' \in [Nodes -> BOOLEAN]
    BY DEF handlePrePrepare, TypeOK, ProcessType, HearsHeartbeat, TakesPart, IsPrimary
<1>3. CASE UNCHANGED <<log, issuedSequenceNumber, sentPrepares>> /\ inFlight' = inFlight \ done
    BY <1>2, <1>3 DEF handlePrePrepare, normalFrame, leaderVars,
            checkpointVars, keyVars, TypeOK, LedgerType, ChangeType, CheckpointType, LeaderType,
            ProcessType, KeyType, SentType
<1>4. CASE /\ log' = [log EXCEPT ![n][pp.number] = AcceptedSlot(n, @, pp.request, pp.digest)]
           /\ issuedSequenceNumber' =
               [issuedSequenceNumber EXCEPT ![n] = Larger(@, pp.number.seqNumber)]
           /\ sentPrepares' = sentPrepares \cup {PrepareFor(n, pp)}
           /\ inFlight' = (inFlight \ done) \cup Broadcast("Prepare", n, PrepareFor(n, pp))
    <2>1. AcceptedSlot(n, log[n][pp.number], pp.request, pp.digest) \in Slot
        BY <1>1, SlotOfType, SlotType
    <2>2. log' \in [Nodes -> [SlotIds -> Slot]]
        BY <1>1, <1>4, <2>1 DEF TypeOK, LedgerType
    <2>3. issuedSequenceNumber' \in [Nodes -> 1..MaxSeq]
        BY <1>1, <1>4, BoundsAssumption DEF Larger, TypeOK, LedgerType
    <2>4. PrepareFor(n, pp) \in Prepare
        BY <1>1 DEF PrepareFor, Prepare
    <2>5. sentPrepares' \subseteq Prepare /\ inFlight' \subseteq Packet
        BY <1>4, <2>4, BroadcastType, PacketKinds DEF TypeOK, SentType
    <2>. QED
        BY <1>2, <2>2, <2>3, <2>5 DEF handlePrePrepare, normalFrame, leaderVars,
            checkpointVars, keyVars, TypeOK, LedgerType, ChangeType, CheckpointType, LeaderType,
            ProcessType, KeyType, SentType
<1>. QED
    BY <1>3, <1>4 DEF handlePrePrepare

\* A pre-prepare that comes in a broadcast preserves the types.
LEMMA PrePrepareReceivedType ==
    ASSUME TypeOK, NEW packet \in inFlight, PrePrepareReceived(packet)
    PROVE  TypeOK'
<1>1. packet.to \in Nodes /\ packet.message \in PrePrepare
    BY PacketType DEF TypeOK, PrePrepareReceived, Delivered
<1>. QED
    BY <1>1, handlePrePrepareType DEF PrePrepareReceived, TypeOK

\* handlePrepare preserves the types.
LEMMA handlePrepareType ==
    ASSUME TypeOK, NEW packet \in inFlight, handlePrepare(packet)
    PROVE  TypeOK'
<1>. DEFINE n == packet.to
            message == packet.message
            slot == CountPrepare(log[n][message.number], message.node)
            commit == [number |-> message.number, digest |-> message.digest, node |-> n]
<1>1. /\ n \in Nodes /\ message.number \in SlotIds /\ message.node \in Nodes
      /\ message.digest \in Proposals \cup {Nil}
    BY PacketType DEF TypeOK, handlePrepare, Delivered, Prepare
<1>2. slot \in Slot /\ CountCommit(slot, n) \in Slot
    BY <1>1, SlotOfType, SlotType
<1>3. commit \in Commit
    BY <1>1 DEF Commit
<1>4. log' \in [Nodes -> [SlotIds -> Slot]]
    <2>1. \/ log' = [log EXCEPT ![n][message.number] = CountCommit(slot, n)]
          \/ log' = [log EXCEPT ![n][message.number] = slot]
        BY DEF handlePrepare
    <2>. HIDE DEF slot, n, message
    <2>2. [log EXCEPT ![n][message.number] = CountCommit(slot, n)]
             \in [Nodes -> [SlotIds -> Slot]]
        BY <1>1, <1>2, LogUpdateType
    <2>3. [log EXCEPT ![n][message.number] = slot] \in [Nodes -> [SlotIds -> Slot]]
        BY <1>1, <1>2, LogUpdateType
    <2>. QED
        BY <2>1, <2>2, <2>3
<1>5. sentCommits' \subseteq Commit /\ inFlight' \subseteq Packet
    BY <1>3, BroadcastType, PacketKinds DEF handlePrepare, TypeOK, SentType
<1>. QED
    BY <1>4, <1>5 DEF handlePrepare, normalFrame, leaderVars, checkpointVars, keyVars, TypeOK,
        LedgerType, ChangeType, CheckpointType, LeaderType, ProcessType, KeyType, SentType

\* Execution and tryCheckpoint keep the types of the key store and its channel.
LEMMA ExecuteType ==
    ASSUME TypeOK, NEW n \in Nodes, NEW request, NEW number \in 0..MaxSeq,
           Execute(n, request, number)
    PROVE  /\ KeyType'
           /\ mainLoop' \in [Nodes -> {"running", "panicked", "blocked"}]
<1>1. Applied(store[n], request) \in Snapshot
    BY DEF TypeOK, KeyType, Applied, Snapshot
<1>2. [number |-> SlotId(viewNumber[n], number), snapshot |-> Applied(store[n], request)]
         \in CheckpointProof
    BY <1>1, SlotIdType DEF TypeOK, LedgerType, CheckpointProof
<1>3. snapshots[n] \in Seq(CheckpointProof)
    BY DEF TypeOK, KeyType
<1>4. snapshots' \in [Nodes -> Seq(CheckpointProof)]
    <2>. DEFINE new == [number |-> SlotId(viewNumber[n], number),
                        snapshot |-> Applied(store[n], request)]
                queue == Append(snapshots[n], new)
    <2>1. queue \in Seq(CheckpointProof)
        BY <1>2, <1>3
    <2>2. \/ snapshots' = snapshots
          \/ snapshots' = [snapshots EXCEPT ![n] = IF number % CHECKPOINT = 0 THEN queue ELSE @]
        BY DEF Execute, tryCheckpoint, keyVars
    <2>. HIDE DEF queue
    <2>. QED
        BY <1>3, <2>1, <2>2 DEF TypeOK, KeyType
<1>5. store' \in [Nodes -> Snapshot]
    BY <1>1 DEF Execute, TypeOK, KeyType, keyVars
<1>6. mainLoop' \in [Nodes -> {"running", "panicked", "blocked"}]
    BY DEF Execute, TypeOK, ProcessType
<1>. QED
    BY <1>4, <1>5, <1>6 DEF KeyType

\* handleCommit preserves the types.
LEMMA handleCommitType ==
    ASSUME TypeOK, NEW packet \in inFlight, handleCommit(packet)
    PROVE  TypeOK'
<1>. DEFINE n == packet.to
            id == packet.message.number
            slot == CountCommit(log[n][id], packet.message.node)
            number == Larger(sequenceNumber[n], id.seqNumber)
<1>1. n \in Nodes /\ id \in SlotIds /\ packet.message.node \in Nodes
    BY PacketType DEF TypeOK, handleCommit, Delivered, Commit
<1>2. slot \in Slot /\ [slot EXCEPT !.committed = TRUE] \in Slot
    BY <1>1, SlotOfType, SlotType
<1>3. sequenceNumber[n] \in 1..MaxSeq /\ id.seqNumber \in 0..MaxSeq
    BY <1>1, SlotIdsType DEF TypeOK, LedgerType
<1>4. number \in 1..MaxSeq /\ number \in 0..MaxSeq
    BY <1>3, BoundsAssumption DEF Larger
<1>5. log' \in [Nodes -> [SlotIds -> Slot]]
    <2>1. \/ log' = [log EXCEPT ![n][id] = [slot EXCEPT !.committed = TRUE]]
          \/ log' = [log EXCEPT ![n][id] = slot]
        BY DEF handleCommit
    <2>. HIDE DEF slot, n, id
    <2>2. [log EXCEPT ![n][id] = [slot EXCEPT !.committed = TRUE]]
             \in [Nodes -> [SlotIds -> Slot]]
        BY <1>1, <1>2, LogUpdateType
    <2>3. [log EXCEPT ![n][id] = slot] \in [Nodes -> [SlotIds -> Slot]]
        BY <1>1, <1>2, LogUpdateType
    <2>. QED
        BY <2>1, <2>2, <2>3
<1>6. sequenceNumber' \in [Nodes -> 1..MaxSeq]
    BY <1>1, <1>4 DEF handleCommit, TypeOK, LedgerType
<1>7. CASE Execute(n, slot.request, number)
    <2>1. KeyType' /\ mainLoop' \in [Nodes -> {"running", "panicked", "blocked"}]
        BY <1>1, <1>4, <1>7, ExecuteType
    <2>. QED
        BY <1>5, <1>6, <2>1 DEF handleCommit, normalFrame, normalMessages, leaderVars,
            checkpointVars, TypeOK, LedgerType, ChangeType, CheckpointType, LeaderType,
            ProcessType, SentType
<1>8. CASE UNCHANGED <<sequenceNumber, keyVars, mainLoop>>
    BY <1>5, <1>6, <1>8 DEF handleCommit, normalFrame, normalMessages, leaderVars,
        checkpointVars, keyVars, TypeOK, LedgerType, ChangeType, CheckpointType, LeaderType,
        ProcessType, KeyType, SentType
<1>. QED
    BY <1>7, <1>8 DEF handleCommit

\* The debug switch preserves the types.
LEMMA DebugType ==
    ASSUME TypeOK, NEW n \in Nodes, DebugDown(n) \/ DebugUp(n)
    PROVE  TypeOK'
<1>1. down' \in [Nodes -> BOOLEAN]
    BY DEF DebugDown, DebugUp, TypeOK, ProcessType
<1>2. inFlight' \subseteq Packet
    BY PacketType DEF DebugDown, DebugUp, TypeOK
<1>. QED
    BY <1>1, <1>2 DEF DebugDown, DebugUp, debugFrame, normalFrame, ledgerVars, keyVars,
        normalMessages, leaderVars, checkpointVars, TypeOK, LedgerType, ChangeType,
        CheckpointType, LeaderType, ProcessType, KeyType, SentType

-----------------------------------------------------------------------------
\* generateProofsSinceCheckpoint returns proofs of slots within the bounds.
LEMMA PreparedProofsType ==
    ASSUME TypeOK, NEW n \in Nodes
    PROVE  PreparedProofs(n) \subseteq PreparedProof
<1>. SUFFICES ASSUME NEW id \in SlotIds, IsPrepared(log[n][id])
              PROVE  [number |-> id, digest |-> log[n][id].requestDigest,
                      request |-> log[n][id].request] \in PreparedProof
    BY DEF PreparedProofs
<1>1. log[n][id] \in Slot
    BY SlotOfType
<1>2. log[n][id].request \in Proposals /\ log[n][id].requestDigest \in Proposals \cup {Nil}
    BY <1>1 DEF Slot, IsPrepared, IsProposed
<1>. QED
    BY <1>2 DEF PreparedProof

\* startViewChange keeps the types of what it changes.
LEMMA startViewChangeType ==
    ASSUME TypeOK, NEW n \in Nodes, NEW view \in 0..MaxView, NEW done,
           startViewChange(n, view, done)
    PROVE  /\ changing' \in [Nodes -> BOOLEAN]
           /\ changeTo' \in [Nodes -> 0..MaxView]
           /\ timerArmed' \in [Nodes -> BOOLEAN]
           /\ sentViewChanges' \subseteq ViewChange
           /\ inFlight' \subseteq Packet
<1>. DEFINE vc == [viewNumber |-> view, checkpoint |-> lastCheckpoint[n].number,
                   proofs |-> PreparedProofs(n), node |-> n]
<1>1. lastCheckpoint[n].number \in SlotIds
    BY DEF TypeOK, CheckpointType, CheckpointProof
<1>2. vc \in ViewChange
    BY <1>1, PreparedProofsType DEF ViewChange
<1>3. /\ sentViewChanges' = sentViewChanges \cup {vc}
      /\ inFlight' = (inFlight \ done) \cup Broadcast("ViewChange", n, vc)
    BY DEF startViewChange
<1>. HIDE DEF vc
<1>4. sentViewChanges' \subseteq ViewChange /\ inFlight' \subseteq Packet
    BY <1>2, <1>3, BroadcastType, PacketKinds DEF TypeOK, SentType
<1>. QED
    BY <1>4 DEF startViewChange, TypeOK, ChangeType, ProcessType

\* A node enters a view at a sequence number of the right type.
LEMMA ResumeAtType ==
    ASSUME TypeOK, NEW n \in Nodes
    PROVE  ResumeAt(n) \in 1..MaxSeq
<1>1. lastCheckpoint[n].number.seqNumber \in 0..MaxSeq
    BY DEF TypeOK, CheckpointType, CheckpointProof, SlotIds
<1>. QED
    BY <1>1, BoundsAssumption DEF ResumeAt, Larger

\* enterNewView keeps the types of what it changes.
LEMMA enterNewViewType ==
    ASSUME TypeOK, NEW n \in Nodes, NEW view \in 0..MaxView, enterNewView(n, view)
    PROVE  /\ changing' \in [Nodes -> BOOLEAN]
           /\ viewNumber' \in [Nodes -> 0..MaxView]
           /\ sequenceNumber' \in [Nodes -> 1..MaxSeq]
           /\ timerArmed' \in [Nodes -> BOOLEAN]
BY ResumeAtType DEF enterNewView, TypeOK, LedgerType, ChangeType, ProcessType

\* A heartbeat RPC starts with a body of its kind.
LEMMA StartRpcType ==
    ASSUME NEW n \in Nodes, NEW p \in Nodes
    PROVE  /\ \A body \in NewView : StartRpc("NewView", n, p, body) \in Rpc
           /\ \A body \in PrePrepare : StartRpc("PrePrepare", n, p, body) \in Rpc
           /\ \A body \in CheckpointProof : StartRpc("CheckpointProof", n, p, body) \in Rpc
<1>1. 0 \in 0..MaxSeq
    BY BoundsAssumption
<1>. QED
    BY <1>1 DEF StartRpc, Rpc, RpcOf

\* generatePrepreparesForNewView makes pre-prepares of the new view.
LEMMA NewPrePreparesType ==
    ASSUME NEW n \in Nodes, NEW view \in 0..MaxView, NEW minS \in 0..MaxSeq,
           NEW maxS \in 0..MaxSeq, NEW messages \in SUBSET ViewChange,
           NEW chosen \in [PreparedNumbers(messages) -> UNION {vc.proofs : vc \in messages}]
    PROVE  NewPrePrepares(n, view, minS, maxS, UNION {vc.proofs : vc \in messages}, chosen)
              \subseteq PrePrepare
<1>. DEFINE proofs == UNION {vc.proofs : vc \in messages}
            hole(s) == HighestProofs(proofs, s) = {}
            pp(s) == [number  |-> SlotId(view, s),
                      digest  |-> IF hole(s) THEN NoOp ELSE chosen[s].digest,
                      request |-> IF hole(s) THEN NoOp ELSE chosen[s].request,
                      signer  |-> n]
<1>1. proofs \subseteq PreparedProof
    BY DEF ViewChange
<1>2. ASSUME NEW s \in minS..maxS
      PROVE  pp(s) \in PrePrepare
    <2>1. s \in 0..MaxSeq
        BY BoundsAssumption
    <2>2. CASE hole(s)
        BY <2>1, <2>2, SlotIdType DEF PrePrepare, Proposals
    <2>3. CASE ~hole(s)
        <3>1. s \in PreparedNumbers(messages)
            BY <2>3 DEF HighestProofs, PreparedNumbers
        <3>2. chosen[s] \in PreparedProof
            BY <1>1, <3>1
        <3>. QED
            BY <2>1, <2>3, <3>2, SlotIdType DEF PrePrepare, PreparedProof
    <2>. QED
        BY <2>2, <2>3
<1>. QED
    BY <1>2 DEF NewPrePrepares

\* The new primary's log is a log.
LEMMA WithProposedType ==
    ASSUME NEW slots \in [SlotIds -> Slot], NEW pps \in SUBSET PrePrepare
    PROVE  WithProposed(slots, pps) \in [SlotIds -> Slot]
<1>. DEFINE mine(id) == {pp \in pps : pp.number = id}
            pick(id) == CHOOSE pp \in mine(id) : TRUE
<1>1. ASSUME NEW id \in SlotIds, mine(id) # {}
      PROVE  ProposedSlot(pick(id).request, pick(id).digest) \in Slot
    <2>1. pick(id) \in mine(id)
        BY <1>1
    <2>2. pick(id).request \in Proposals /\ pick(id).digest \in Proposals \cup {Nil}
        BY <2>1 DEF PrePrepare
    <2>. QED
        BY <2>2 DEF ProposedSlot, EmptySlot, Slot
<1>. QED
    BY <1>1 DEF WithProposed

\* Announcing a view preserves the types.
LEMMA AnnounceViewType ==
    ASSUME TypeOK, NEW n \in Nodes, NEW view \in 0..MaxView, NEW pps \in SUBSET PrePrepare,
           NEW maxS \in 0..MaxSeq, AnnounceView(n, view, pps, maxS)
    PROVE  /\ LeaderType' /\ rpcs' \subseteq Rpc /\ sentNewViews' \subseteq NewView
           /\ log' \in [Nodes -> [SlotIds -> Slot]]
           /\ issuedSequenceNumber' \in [Nodes -> 1..MaxSeq]
           /\ enterNewView(n, view)
<1>. DEFINE nv == [viewNumber |-> view, prePrepares |-> pps, node |-> n]
<1>1. nv \in NewView
    BY DEF NewView
<1>2. /\ log' = [log EXCEPT ![n] = WithProposed(@, pps)]
      /\ issuedSequenceNumber' = [issuedSequenceNumber EXCEPT ![n] = Larger(@, maxS)]
      /\ newView' = [newView EXCEPT ![n] = nv]
      /\ caughtUp' = [caughtUp EXCEPT ![n] = [p \in Nodes |-> 0]]
      /\ enterNewView(n, view)
      /\ sentNewViews' = sentNewViews \cup {nv}
      /\ rpcs' = rpcs \cup {StartRpc("NewView", n, p, nv) : p \in Linked("Heartbeat", n)}
    BY DEF AnnounceView
<1>. HIDE DEF nv
<1>3. rpcs' \subseteq Rpc
    BY <1>1, <1>2, StartRpcType DEF TypeOK, Linked
<1>4. LeaderType'
    BY <1>1, <1>2, BoundsAssumption DEF TypeOK, LeaderType
<1>5. log' \in [Nodes -> [SlotIds -> Slot]]
    BY <1>2, WithProposedType DEF TypeOK, LedgerType
<1>6. issuedSequenceNumber' \in [Nodes -> 1..MaxSeq]
    BY <1>2, BoundsAssumption DEF Larger, TypeOK, LedgerType
<1>. QED
    BY <1>1, <1>2, <1>3, <1>4, <1>5, <1>6 DEF TypeOK, SentType

\* handleViewChange preserves the types: it joins, leads, or only remembers.
LEMMA handleViewChangeType ==
    ASSUME TypeOK, NEW packet \in inFlight, handleViewChange(packet)
    PROVE  TypeOK'
<1>. DEFINE n == packet.to
            vc == packet.message
            messages == Received(n, vc)
<1>1. n \in Nodes /\ vc \in ViewChange /\ vc.viewNumber \in 0..MaxView
    BY PacketType DEF TypeOK, handleViewChange, Delivered, ViewChange
<1>2. messages \in SUBSET ViewChange
    BY <1>1 DEF Received, TypeOK, ChangeType
<1>3. changeMessages' \in [Nodes -> SUBSET ViewChange]
    BY <1>1, <1>2 DEF handleViewChange, TypeOK, ChangeType
<1>. USE DEF viewChangeFrame, checkpointVars, keyVars, leaderVars, changeMessageVars,
        LedgerType, ChangeType, CheckpointType, LeaderType, ProcessType, KeyType, SentType
<1>4. ASSUME NEW view \in 0..MaxView,
             \/ startViewChange(n, view, {packet})
             \/ /\ inFlight' = inFlight \ {packet}
                /\ UNCHANGED <<changing, changeTo, timerArmed, sentViewChanges>>,
             UNCHANGED <<log, viewNumber, sequenceNumber, issuedSequenceNumber, leaderVars,
                         sentNewViews, rpcs>>
      PROVE  TypeOK'
    <2>1. /\ changing' \in [Nodes -> BOOLEAN]
          /\ changeTo' \in [Nodes -> 0..MaxView]
          /\ timerArmed' \in [Nodes -> BOOLEAN]
          /\ sentViewChanges' \subseteq ViewChange
          /\ inFlight' \subseteq Packet
        BY <1>1, <1>4, startViewChangeType DEF TypeOK
    <2>. QED
        BY <1>3, <1>4, <2>1 DEF handleViewChange, TypeOK
<1>5. ASSUME LeadNewView(n, vc.viewNumber, messages),
             inFlight' = inFlight \ {packet},
             UNCHANGED <<changeTo, sentViewChanges>>
      PROVE  TypeOK'
    <2>. DEFINE proofs == UNION {m.proofs : m \in messages}
                pps(minS, maxS, chosen) ==
                    NewPrePrepares(n, vc.viewNumber, minS, maxS, proofs, chosen)
    <2>1. PICK minS \in 0..MaxSeq, maxS \in 0..MaxSeq,
               chosen \in [PreparedNumbers(messages) -> proofs] :
             AnnounceView(n, vc.viewNumber, pps(minS, maxS, chosen), maxS)
        BY <1>5 DEF LeadNewView
    <2>2. pps(minS, maxS, chosen) \in SUBSET PrePrepare
        BY <1>1, <1>2, NewPrePreparesType
    <2>3. /\ LeaderType' /\ rpcs' \subseteq Rpc /\ sentNewViews' \subseteq NewView
          /\ log' \in [Nodes -> [SlotIds -> Slot]]
          /\ issuedSequenceNumber' \in [Nodes -> 1..MaxSeq]
          /\ enterNewView(n, vc.viewNumber)
        BY <1>1, <2>1, <2>2, AnnounceViewType
    <2>4. /\ changing' \in [Nodes -> BOOLEAN]
          /\ viewNumber' \in [Nodes -> 0..MaxView]
          /\ sequenceNumber' \in [Nodes -> 1..MaxSeq]
          /\ timerArmed' \in [Nodes -> BOOLEAN]
        BY <1>1, <2>3, enterNewViewType
    <2>. QED
        BY <1>3, <1>5, <2>3, <2>4 DEF handleViewChange, TypeOK
<1>6. ASSUME inFlight' = inFlight \ {packet},
             UNCHANGED <<log, viewNumber, sequenceNumber, issuedSequenceNumber, changing,
                         changeTo, timerArmed, leaderVars, changeMessageVars, rpcs>>
      PROVE  TypeOK'
    BY <1>3, <1>6 DEF handleViewChange, TypeOK
<1>. QED
    BY <1>4, <1>5, <1>6 DEF handleViewChange

\* The log of a backup that has looped over a NewView is a log.
LEMMA WithAcceptedType ==
    ASSUME NEW n \in Nodes, NEW slots \in [SlotIds -> Slot],
           NEW accepted \in SUBSET PrePrepare, NEW last \in PrePrepare
    PROVE  WithAccepted(n, slots, accepted, last) \in [SlotIds -> Slot]
<1>. DEFINE mine(id) == {pp \in accepted : pp.number = id}
            pick(id) == CHOOSE pp \in mine(id) : TRUE
<1>1. ASSUME NEW id \in SlotIds, mine(id) # {}
      PROVE  AcceptedSlot(n, slots[id], last.request, pick(id).digest) \in Slot
    <2>1. pick(id) \in mine(id)
        BY <1>1
    <2>2. last.request \in Proposals /\ pick(id).digest \in Proposals \cup {Nil}
        BY <2>1 DEF PrePrepare
    <2>. QED
        BY <2>2, SlotType
<1>. QED
    BY <1>1 DEF WithAccepted

\* handleNewView preserves the types, given those of its caller's RPCs.
LEMMA handleNewViewType ==
    ASSUME TypeOK, NEW n \in Nodes, NEW nv \in NewView, handleNewView(n, nv),
           rpcs' \subseteq Rpc
    PROVE  TypeOK'
<1>1. nv.viewNumber \in 0..MaxView /\ nv.prePrepares \subseteq PrePrepare
    BY DEF NewView
<1>. DEFINE accepted == {pp \in nv.prePrepares : /\ pp.number.seqNumber > ResumeAt(n)
                                                 /\ Accepts(n, nv.viewNumber, pp)}
            prepares == {PrepareFor(n, pp) : pp \in accepted}
<1>2. accepted \subseteq PrePrepare
    BY <1>1
<1>3. prepares \subseteq Prepare
    BY <1>2 DEF PrepareFor, Prepare, PrePrepare
<1>. USE DEF viewChangeFrame, checkpointVars, keyVars, leaderVars, changeMessageVars,
        LedgerType, ChangeType, CheckpointType, LeaderType, ProcessType, KeyType, SentType
<1>4. CASE EnterAsBackup(n, nv)
    <2>1. /\ enterNewView(n, nv.viewNumber)
          /\ sentPrepares' = sentPrepares \cup prepares
          /\ inFlight' = inFlight \cup UNION {Broadcast("Prepare", n, m) : m \in prepares}
        BY <1>4 DEF EnterAsBackup
    <2>2. /\ changing' \in [Nodes -> BOOLEAN]
          /\ viewNumber' \in [Nodes -> 0..MaxView]
          /\ sequenceNumber' \in [Nodes -> 1..MaxSeq]
          /\ timerArmed' \in [Nodes -> BOOLEAN]
        BY <1>1, <2>1, enterNewViewType
    <2>3. \/ UNCHANGED <<log, issuedSequenceNumber>>
          \/ \E last \in nv.prePrepares, maxS \in 0..MaxSeq :
                /\ log' = [log EXCEPT ![n] = WithAccepted(n, @, accepted, last)]
                /\ issuedSequenceNumber' = [issuedSequenceNumber EXCEPT ![n] = Larger(@, maxS)]
        BY <1>4 DEF EnterAsBackup
    <2>. HIDE DEF accepted, prepares
    <2>4. /\ log' \in [Nodes -> [SlotIds -> Slot]]
          /\ issuedSequenceNumber' \in [Nodes -> 1..MaxSeq]
        <3>1. CASE UNCHANGED <<log, issuedSequenceNumber>>
            BY <3>1 DEF TypeOK
        <3>2. CASE \E last \in nv.prePrepares, maxS \in 0..MaxSeq :
                /\ log' = [log EXCEPT ![n] = WithAccepted(n, @, accepted, last)]
                /\ issuedSequenceNumber' = [issuedSequenceNumber EXCEPT ![n] = Larger(@, maxS)]
            <4>1. PICK last \in nv.prePrepares, maxS \in 0..MaxSeq :
                /\ log' = [log EXCEPT ![n] = WithAccepted(n, @, accepted, last)]
                /\ issuedSequenceNumber' = [issuedSequenceNumber EXCEPT ![n] = Larger(@, maxS)]
                BY <3>2
            <4>2. WithAccepted(n, log[n], accepted, last) \in [SlotIds -> Slot]
                BY <1>1, <1>2, WithAcceptedType DEF TypeOK
            <4>3. Larger(issuedSequenceNumber[n], maxS) \in 1..MaxSeq
                BY BoundsAssumption DEF Larger, TypeOK
            <4>. QED
                BY <4>1, <4>2, <4>3 DEF TypeOK
        <3>. QED
            BY <2>3, <3>1, <3>2
    <2>6. sentPrepares' \subseteq Prepare /\ inFlight' \subseteq Packet
        BY <1>3, <2>1, BroadcastType, PacketKinds DEF TypeOK
    <2>. QED
        BY <2>2, <2>4, <2>6 DEF handleNewView, TypeOK
<1>5. CASE UNCHANGED <<log, viewNumber, sequenceNumber, issuedSequenceNumber, changing,
                       timerArmed, sentPrepares, inFlight>>
    BY <1>5 DEF handleNewView, TypeOK
<1>. QED
    BY <1>4, <1>5 DEF handleNewView

-----------------------------------------------------------------------------
\* The heartbeat a primary chooses for a peer, unless it panics, is an RPC.
LEMMA HeartbeatRpcType ==
    ASSUME TypeOK, NEW n \in Nodes, NEW p \in Nodes, ~HeartbeatPanics(n, p)
    PROVE  HeartbeatRpc(n, p) \in Rpc
<1>1. newView[n] \in NewView /\ lastCheckpoint[n] \in CheckpointProof
    BY DEF TypeOK, LeaderType, CheckpointType
<1>2. Heartbeat(n) \in PrePrepare
    BY SlotIdType, BoundsAssumption DEF Heartbeat, PrePrepare, Proposals
<1>3. ASSUME Resends(n, p)
      PROVE  Resent(n, p) \in PrePrepare
    <2>. DEFINE id == ResendSlot(n, p)
    <2>1. id \in SlotIds /\ log[n][id].request # Nil
        BY <1>3 DEF HeartbeatPanics
    <2>2. log[n][id] \in Slot
        BY <2>1, SlotOfType
    <2>3. log[n][id].request \in Proposals /\ log[n][id].requestDigest \in Proposals \cup {Nil}
        BY <2>1, <2>2 DEF Slot
    <2>. QED
        BY <2>1, <2>3 DEF Resent, ResentAs, PrePrepare
<1>4. \/ HeartbeatRpc(n, p) = StartRpc("NewView", n, p, newView[n])
      \/ HeartbeatRpc(n, p) = StartRpc("PrePrepare", n, p, Heartbeat(n))
      \/ HeartbeatRpc(n, p) = StartRpc("CheckpointProof", n, p, lastCheckpoint[n])
      \/ Resends(n, p) /\ HeartbeatRpc(n, p) = StartRpc("PrePrepare", n, p, Resent(n, p))
    BY DEF HeartbeatRpc
<1>. QED
    BY <1>1, <1>2, <1>3, <1>4, StartRpcType

\* The ticker preserves the types, also when the main loop panics.
LEMMA SendHeartbeatType ==
    ASSUME TypeOK, NEW n \in Nodes, SendHeartbeat(n)
    PROVE  TypeOK'
<1>. DEFINE unsafe == {p \in Peers(n) : HeartbeatPanics(n, p)}
<1>1. PICK visited \in SUBSET (Linked("Heartbeat", n) \ unsafe) :
         rpcs' = rpcs \cup {HeartbeatRpc(n, p) : p \in visited}
    BY DEF SendHeartbeat
<1>2. \A p \in visited : p \in Peers(n)
    BY NodesAssumption DEF Linked, Peers, MessageKinds
<1>3. \A p \in visited : p \in Nodes /\ ~HeartbeatPanics(n, p)
    BY <1>2 DEF Peers
<1>4. rpcs' \subseteq Rpc
    BY <1>1, <1>3, HeartbeatRpcType DEF TypeOK
<1>5. mainLoop' \in [Nodes -> {"running", "panicked", "blocked"}]
    BY DEF SendHeartbeat, TypeOK, ProcessType
<1>. QED
    BY <1>4, <1>5 DEF SendHeartbeat, ledgerVars, changeVars, checkpointVars, leaderVars, keyVars,
        normalMessages, changeMessageVars, TypeOK, LedgerType, ChangeType, CheckpointType,
        LeaderType, ProcessType, KeyType, SentType

\* Handling a heartbeat RPC preserves the types.
LEMMA RpcHandledType ==
    ASSUME TypeOK, NEW rpc \in rpcs, RpcHandled(rpc)
    PROVE  TypeOK'
<1>1. rpc \in Rpc /\ rpc.to \in Nodes
    BY RpcType DEF TypeOK
<1>2. rpcs' \subseteq Rpc
    <2>1. [rpc EXCEPT !.stage = "replied"] \in Rpc
        BY <1>1 DEF Rpc, RpcOf
    <2>. QED
        BY <2>1 DEF RpcHandled, TypeOK
<1>3. CASE rpc.kind = "NewView" /\ handleNewView(rpc.to, rpc.body)
    BY <1>1, <1>2, <1>3, RpcType, handleNewViewType
<1>4. CASE rpc.kind = "PrePrepare" /\ handlePrePrepare(rpc.to, rpc.body, {})
    BY <1>1, <1>2, <1>4, RpcType, handlePrePrepareType
<1>5. CASE rpc.kind = "CheckpointProof" /\ handleCheckpointProof(rpc.to, rpc.body)
    BY <1>1, <1>2, <1>5, RpcType, handleCheckpointProofType
<1>. QED
    BY <1>3, <1>4, <1>5 DEF RpcHandled

\* An RPC that arrives, returns or times out preserves the types.
LEMMA RpcMovesType ==
    ASSUME TypeOK, NEW rpc \in rpcs, RpcArrives(rpc) \/ RpcReturns(rpc) \/ RpcTimesOut(rpc)
    PROVE  TypeOK'
<1>1. rpc \in Rpc /\ rpc.to \in Nodes /\ rpc.from \in Nodes /\ rpc.seq \in 0..MaxSeq
    BY RpcType DEF TypeOK
<1>2. Answer(rpc) \in 0..MaxSeq
    BY <1>1, BoundsAssumption DEF Answer, TypeOK, LedgerType
<1>3. rpcs' \subseteq Rpc
    BY <1>1, <1>2, RpcProgressType DEF RpcArrives, RpcReturns, RpcTimesOut, TypeOK
<1>4. caughtUp' \in [Nodes -> [Nodes -> 0..MaxSeq]]
    <2>1. (IF rpc.kind = "NewView" THEN 1 ELSE rpc.seq) \in 0..MaxSeq
        BY <1>1, BoundsAssumption
    <2>. QED
        BY <1>1, <2>1 DEF RpcArrives, RpcReturns, RpcTimesOut, TypeOK, LeaderType
<1>. QED
    BY <1>3, <1>4 DEF RpcArrives, RpcReturns, RpcTimesOut, rpcFrame, ledgerVars, changeVars,
        checkpointVars, keyVars, normalMessages, changeMessageVars, TypeOK, LedgerType,
        ChangeType, CheckpointType, LeaderType, ProcessType, KeyType, SentType

\* The backup's timer preserves the types.
LEMMA TimeoutType ==
    ASSUME TypeOK, NEW n \in Nodes, Timeout(n)
    PROVE  TypeOK'
<1>1. /\ changing' \in [Nodes -> BOOLEAN]
      /\ changeTo' \in [Nodes -> 0..MaxView]
      /\ timerArmed' \in [Nodes -> BOOLEAN]
      /\ sentViewChanges' \subseteq ViewChange
      /\ inFlight' \subseteq Packet
    <2>1. CASE viewNumber[n] < MaxView /\ startViewChange(n, viewNumber[n] + 1, {})
        <3>1. viewNumber[n] + 1 \in 0..MaxView
            BY <2>1, BoundsAssumption DEF TypeOK, LedgerType
        <3>. QED
            BY <2>1, <3>1, startViewChangeType
    <2>2. CASE /\ timerArmed' = [timerArmed EXCEPT ![n] = FALSE]
               /\ UNCHANGED <<changing, changeTo, sentViewChanges, inFlight>>
        BY <2>2 DEF TypeOK, ChangeType, ProcessType, SentType
    <2>. QED
        BY <2>1, <2>2 DEF Timeout
<1>. QED
    BY <1>1 DEF Timeout, ledgerVars, checkpointVars, leaderVars, keyVars, normalMessages, TypeOK,
        LedgerType, ChangeType, CheckpointType, LeaderType, ProcessType, KeyType, SentType

\* Every step preserves the types: TypeOK is inductive as it stands.
LEMMA TypeStep == TypeOK /\ [Next]_vars => TypeOK'
<1>. SUFFICES ASSUME TypeOK, [Next]_vars
              PROVE  TypeOK'
    OBVIOUS
<1>1. ASSUME NEW n \in Nodes, NEW r \in Requests, Propose(n, r)
      PROVE  TypeOK'
    BY <1>1, handleClientRequestType DEF Propose
<1>2. CASE UNCHANGED vars
    BY <1>2 DEF vars, ledgerVars, changeVars, checkpointVars, leaderVars, keyVars,
        normalMessages, changeMessageVars, TypeOK, LedgerType, ChangeType, CheckpointType,
        LeaderType, ProcessType, KeyType, SentType
<1>. QED
    BY <1>1, <1>2, ClientRequestType, PrePrepareReceivedType, handlePrepareType,
        handleCommitType, handleCheckpointType, handleViewChangeType, handleRecvSnapshotType,
        SendHeartbeatType, TimeoutType, DebugType, RpcHandledType, RpcMovesType
        DEF Next

\* Type correctness, for every cluster and every bound.
THEOREM TypeCorrect == Spec => []TypeOK
BY InitType, TypeStep, PTL DEF Spec

==============================================================================
