-------------------------- MODULE PBFTAgreementProofs --------------------------
(***************************************************************************)
(* In view 0 no slot holds two requests.  Nobody compares votes with the   *)
(* slot they are for, so this rests on the primary alone: the sequence     *)
(* numbers it issues only grow, every request in a slot of view 0 is one   *)
(* it has proposed, in a pre-prepare or again in a heartbeat, and no view  *)
(* change leads to view 0, so that no NewView fills such a slot.           *)
(***************************************************************************)
EXTENDS PBFTCertificateProofs

FirstPrimary == LeaderFor[0]

\* The pre-prepare of the first primary that a slot would have come from.
AsProposed(id, slot) ==
    [number |-> id, digest |-> slot.requestDigest, request |-> slot.request,
     signer |-> FirstPrimary]

FromFirstPrimary(id, slot, sent) ==
    id.viewNumber = 0 /\ slot.request # Nil => AsProposed(id, slot) \in sent

LogProposed ==
    \A n \in Nodes, id \in SlotIds : FromFirstPrimary(id, log[n][id], sentPrePrepares)

IssuedByPrimary ==
    \A pp \in sentPrePrepares : pp.number.viewNumber = 0 =>
        pp.signer = FirstPrimary /\ pp.number.seqNumber <= issuedSequenceNumber[FirstPrimary]

ProposedOnce ==
    \A pp, qq \in sentPrePrepares :
        pp.number.viewNumber = 0 /\ pp.number = qq.number => pp.request = qq.request

PacketProposed(packet, sent) ==
    /\ packet.kind = "PrePrepare" => packet.message \in sent
    /\ packet.kind = "ViewChange" => packet.message.viewNumber >= 1

PacketsProposed == \A packet \in inFlight : PacketProposed(packet, sentPrePrepares)

RpcProposed(rpc, sent) ==
    /\ rpc.kind = "PrePrepare"
    /\ rpc.body.number.viewNumber = 0 /\ rpc.body.number.seqNumber # 0
    => rpc.body \in sent

ChangesLater == \A n \in Nodes : changing[n] => changeTo[n] >= 1

AgreementInv ==
    /\ TypeOK
    /\ LogProposed /\ IssuedByPrimary /\ ProposedOnce
    /\ PacketsProposed /\ ResentAsProposed /\ ChangesLater

-----------------------------------------------------------------------------
\* The primary of view 0 is a node.
LEMMA FirstPrimaryType == 0 \in 0..MaxView /\ FirstPrimary \in Nodes
BY BoundsAssumption, LeaderForAssumption DEF FirstPrimary

\* The request of a slot, and its digest, are what they were, or the slot is empty,
\* or it was proposed.
SlotMoves(id, old, new, sent) ==
    \/ new.request = old.request /\ new.requestDigest = old.requestDigest
    \/ new.request = Nil
    \/ FromFirstPrimary(id, new, sent)

\* What a step must do for the invariant to survive it.
LEMMA AgreementStep ==
    ASSUME AgreementInv, TypeOK',
           sentPrePrepares \subseteq sentPrePrepares',
           \A n \in Nodes : issuedSequenceNumber[n] <= issuedSequenceNumber'[n],
           \A pp \in sentPrePrepares' \ sentPrePrepares : pp.number.viewNumber = 0 =>
               /\ pp.signer = FirstPrimary
               /\ pp.number.seqNumber > issuedSequenceNumber[FirstPrimary]
               /\ pp.number.seqNumber <= issuedSequenceNumber'[FirstPrimary],
           \A pp, qq \in sentPrePrepares' \ sentPrePrepares : pp = qq,
           \A n \in Nodes, id \in SlotIds :
               SlotMoves(id, log[n][id], log'[n][id], sentPrePrepares'),
           \A packet \in inFlight' :
               packet \in inFlight \/ PacketProposed(packet, sentPrePrepares'),
           \A rpc \in rpcs' : rpc \in rpcs \/ RpcProposed(rpc, sentPrePrepares'),
           \A n \in Nodes :
               \/ changing'[n] = changing[n] /\ changeTo'[n] = changeTo[n]
               \/ changing'[n] => changeTo'[n] >= 1
    PROVE  AgreementInv'
<1>1. LogProposed'
    <2>1. SUFFICES ASSUME NEW n \in Nodes, NEW id \in SlotIds
                   PROVE  FromFirstPrimary(id, log'[n][id], sentPrePrepares')
        BY DEF LogProposed
    <2>2. FromFirstPrimary(id, log[n][id], sentPrePrepares)
        BY DEF AgreementInv, LogProposed
    <2>3. SlotMoves(id, log[n][id], log'[n][id], sentPrePrepares')
        OBVIOUS
    <2>. QED
        BY <2>2, <2>3 DEF SlotMoves, FromFirstPrimary, AsProposed
<1>2. /\ issuedSequenceNumber[FirstPrimary] \in Int /\ issuedSequenceNumber'[FirstPrimary] \in Int
      /\ \A pp \in sentPrePrepares' : pp.number.seqNumber \in Int
      /\ issuedSequenceNumber[FirstPrimary] <= issuedSequenceNumber'[FirstPrimary]
    <2>1. \A pp \in sentPrePrepares' : pp.number \in SlotIds
        BY DEF TypeOK, SentType, PrePrepare
    <2>2. \A id \in SlotIds : id.seqNumber \in Int
        BY SlotIdsType
    <2>. QED
        BY <2>1, <2>2, FirstPrimaryType DEF AgreementInv, TypeOK, LedgerType
<1>3. IssuedByPrimary'
    <2>1. SUFFICES ASSUME NEW pp \in sentPrePrepares', pp.number.viewNumber = 0
                   PROVE  /\ pp.signer = FirstPrimary
                          /\ pp.number.seqNumber <= issuedSequenceNumber'[FirstPrimary]
        BY DEF IssuedByPrimary, FirstPrimary
    <2>2. CASE pp \in sentPrePrepares
        BY <1>2, <2>1, <2>2 DEF AgreementInv, IssuedByPrimary
    <2>3. CASE pp \notin sentPrePrepares
        BY <2>1, <2>3
    <2>. QED
        BY <2>2, <2>3
<1>4. ProposedOnce'
    <2>1. SUFFICES ASSUME NEW pp \in sentPrePrepares', NEW qq \in sentPrePrepares',
                          pp.number.viewNumber = 0, pp.number = qq.number
                   PROVE  pp.request = qq.request
        BY DEF ProposedOnce
    <2>2. CASE pp \in sentPrePrepares /\ qq \in sentPrePrepares
        BY <2>1, <2>2 DEF AgreementInv, ProposedOnce
    <2>3. CASE pp \notin sentPrePrepares /\ qq \notin sentPrePrepares
        BY <2>3
    <2>4. ASSUME NEW old \in sentPrePrepares, NEW new \in sentPrePrepares' \ sentPrePrepares,
                 old.number = new.number, new.number.viewNumber = 0
          PROVE  FALSE
        <3>1. old.number.seqNumber <= issuedSequenceNumber[FirstPrimary]
            BY <2>4 DEF AgreementInv, IssuedByPrimary
        <3>2. new.number.seqNumber > issuedSequenceNumber[FirstPrimary]
            BY <2>4
        <3>. QED
            BY <1>2, <2>4, <3>1, <3>2
    <2>. QED
        BY <2>1, <2>2, <2>3, <2>4
<1>5. PacketsProposed'
    BY DEF PacketsProposed, PacketProposed, AgreementInv
<1>6. ResentAsProposed'
    BY DEF ResentAsProposed, RpcProposed, AgreementInv
<1>7. ChangesLater'
    BY DEF ChangesLater, AgreementInv
<1>. QED
    BY <1>1, <1>3, <1>4, <1>5, <1>6, <1>7 DEF AgreementInv

\* Steps after which no node has proposed more, or is on its way to another view.
LEMMA UnproposedStep ==
    ASSUME AgreementInv, TypeOK', UNCHANGED <<sentPrePrepares, changing, changeTo>>,
           \A n \in Nodes : issuedSequenceNumber[n] <= issuedSequenceNumber'[n],
           \A n \in Nodes, id \in SlotIds :
               SlotMoves(id, log[n][id], log'[n][id], sentPrePrepares),
           \A packet \in inFlight' :
               \/ packet \in inFlight
               \/ packet.kind \notin {"PrePrepare", "ViewChange"}
               \/ \E old \in inFlight : packet = [old EXCEPT !.accepted = TRUE],
           \A rpc \in rpcs' : rpc \in rpcs \/ RpcProposed(rpc, sentPrePrepares)
    PROVE  AgreementInv'
<1>1. ASSUME NEW old \in inFlight
      PROVE  PacketProposed([old EXCEPT !.accepted = TRUE], sentPrePrepares)
    <2>1. PacketProposed(old, sentPrePrepares) /\ old \in Packet
        BY DEF AgreementInv, PacketsProposed, TypeOK
    <2>. QED
        BY <2>1 DEF PacketProposed, Packet, PacketOf
<1>2. \A packet \in inFlight' : packet \in inFlight \/ PacketProposed(packet, sentPrePrepares')
    BY <1>1 DEF PacketProposed
<1>. QED
    BY <1>2, AgreementStep

\* A log that stays as it is, and sequence numbers that do.
LEMMA SameLedger ==
    ASSUME TypeOK, UNCHANGED <<log, issuedSequenceNumber>>
    PROVE  /\ \A n \in Nodes : issuedSequenceNumber[n] <= issuedSequenceNumber'[n]
           /\ \A n \in Nodes, id \in SlotIds :
                 SlotMoves(id, log[n][id], log'[n][id], sentPrePrepares)
BY DEF SlotMoves, TypeOK, LedgerType

\* A log in which slots are cleared.
LEMMA ClearedLedger ==
    ASSUME TypeOK, UNCHANGED issuedSequenceNumber,
           \A n \in Nodes, id \in SlotIds : log'[n][id] = log[n][id] \/ log'[n][id] = EmptySlot
    PROVE  /\ \A n \in Nodes : issuedSequenceNumber[n] <= issuedSequenceNumber'[n]
           /\ \A n \in Nodes, id \in SlotIds :
                 SlotMoves(id, log[n][id], log'[n][id], sentPrePrepares)
BY DEF SlotMoves, TypeOK, LedgerType, EmptySlot

-----------------------------------------------------------------------------
\* handleCheckpoint preserves the invariant.
LEMMA handleCheckpointAgreement ==
    ASSUME AgreementInv, NEW packet \in inFlight, handleCheckpoint(packet)
    PROVE  AgreementInv'
<1>1. TypeOK /\ TypeOK' /\ packet.to \in Nodes
    BY handleCheckpointType, PacketType DEF AgreementInv, TypeOK
<1>2. \A n \in Nodes, id \in SlotIds : log'[n][id] = log[n][id] \/ log'[n][id] = EmptySlot
    BY <1>1, FlushedLog DEF handleCheckpoint
<1>3. /\ UNCHANGED <<issuedSequenceNumber, sentPrePrepares, changing, changeTo, rpcs>>
      /\ inFlight' \subseteq inFlight
    BY DEF handleCheckpoint, checkpointFrame, normalMessages, changeVars
<1>. QED
    BY <1>1, <1>2, <1>3, ClearedLedger, UnproposedStep

\* handleRecvSnapshot preserves the invariant.
LEMMA handleRecvSnapshotAgreement ==
    ASSUME AgreementInv, NEW n \in Nodes, handleRecvSnapshot(n)
    PROVE  AgreementInv'
<1>1. TypeOK /\ TypeOK'
    BY handleRecvSnapshotType DEF AgreementInv
<1>2. \A p \in Nodes, id \in SlotIds : log'[p][id] = log[p][id] \/ log'[p][id] = EmptySlot
    BY <1>1, FlushedLog DEF handleRecvSnapshot
<1>3. \A packet \in inFlight' : packet \in inFlight \/ packet.kind = "Checkpoint"
    BY BroadcastKind DEF handleRecvSnapshot
<1>4. UNCHANGED <<issuedSequenceNumber, sentPrePrepares, changing, changeTo, rpcs>>
    BY DEF handleRecvSnapshot, checkpointFrame, normalMessages, changeVars
<1>. QED
    BY <1>1, <1>2, <1>3, <1>4, ClearedLedger, UnproposedStep

\* The debug switch preserves the invariant.
LEMMA DebugAgreement ==
    ASSUME AgreementInv, NEW n \in Nodes, DebugDown(n) \/ DebugUp(n)
    PROVE  AgreementInv'
<1>1. TypeOK /\ TypeOK'
    BY DebugType DEF AgreementInv
<1>2. \A packet \in inFlight' :
         packet \in inFlight \/ \E old \in inFlight : packet = [old EXCEPT !.accepted = TRUE]
    BY DEF DebugDown, DebugUp
<1>3. UNCHANGED <<log, issuedSequenceNumber, sentPrePrepares, changing, changeTo, rpcs>>
    BY DEF DebugDown, DebugUp, debugFrame, normalFrame, ledgerVars, normalMessages
<1>. QED
    BY <1>1, <1>2, <1>3, SameLedger, UnproposedStep

\* An RPC that arrives, returns or times out preserves the invariant.
LEMMA RpcMovesAgreement ==
    ASSUME AgreementInv, NEW rpc \in rpcs,
           RpcArrives(rpc) \/ RpcReturns(rpc) \/ RpcTimesOut(rpc)
    PROVE  AgreementInv'
<1>1. TypeOK /\ TypeOK' /\ rpc \in Rpc /\ RpcProposed(rpc, sentPrePrepares)
    BY RpcMovesType DEF AgreementInv, TypeOK, ResentAsProposed, RpcProposed
<1>2. /\ \A s : RpcProposed([rpc EXCEPT !.stage = "arrived", !.seq = s], sentPrePrepares)
      /\ RpcProposed([rpc EXCEPT !.stage = "orphan"], sentPrePrepares)
    BY <1>1 DEF RpcProposed, Rpc, RpcOf
<1>3. \A r \in rpcs' : r \in rpcs \/ RpcProposed(r, sentPrePrepares)
    BY <1>2 DEF RpcArrives, RpcReturns, RpcTimesOut
<1>4. UNCHANGED <<log, issuedSequenceNumber, sentPrePrepares, changing, changeTo, inFlight>>
    BY DEF RpcArrives, RpcReturns, RpcTimesOut, rpcFrame, ledgerVars, normalMessages, changeVars
<1>. QED
    BY <1>1, <1>3, <1>4, SameLedger, UnproposedStep

-----------------------------------------------------------------------------
\* Slots of one node that change, in a log whose others do not.
LEMMA OneSlotMoves ==
    ASSUME TypeOK, NEW n \in Nodes, NEW id \in SlotIds, NEW slot, NEW sent,
           log' = [log EXCEPT ![n][id] = slot],
           SlotMoves(id, log[n][id], slot, sent)
    PROVE  \A p \in Nodes, i \in SlotIds : SlotMoves(i, log[p][i], log'[p][i], sent)
<1>1. /\ log'[n][id] = slot
      /\ \A p \in Nodes, i \in SlotIds : (p # n \/ i # id) => log'[p][i] = log[p][i]
    BY DEF TypeOK, LedgerType
<1>2. ASSUME NEW p \in Nodes, NEW i \in SlotIds
      PROVE  SlotMoves(i, log[p][i], log'[p][i], sent)
    <2>1. CASE p = n /\ i = id
        BY <1>1, <2>1
    <2>2. CASE p # n \/ i # id
        BY <1>1, <2>2 DEF SlotMoves
    <2>. QED
        BY <2>1, <2>2
<1>. QED
    BY <1>2

\* The numbers a node issues only grow.
LEMMA IssuedGrows ==
    ASSUME TypeOK, NEW n \in Nodes, NEW s \in Int,
           issuedSequenceNumber' = [issuedSequenceNumber EXCEPT ![n] = Larger(@, s)]
    PROVE  \A p \in Nodes : issuedSequenceNumber[p] <= issuedSequenceNumber'[p]
<1>1. \A p \in Nodes : issuedSequenceNumber[p] \in Int
    BY DEF TypeOK, LedgerType
<1>2. Larger(issuedSequenceNumber[n], s) >= issuedSequenceNumber[n]
    BY <1>1, LargerType
<1>. QED
    BY <1>1, <1>2 DEF TypeOK, LedgerType

\* handleClientRequest preserves the invariant: the primary takes a number it has
\* never issued.
LEMMA handleClientRequestAgreement ==
    ASSUME AgreementInv, NEW n \in Nodes, NEW r \in Requests, NEW done,
           handleClientRequest(n, r, done)
    PROVE  AgreementInv'
<1>1. TypeOK /\ TypeOK'
    BY handleClientRequestType DEF AgreementInv
<1>2. UNCHANGED <<changing, changeTo, rpcs>>
    BY DEF handleClientRequest, normalFrame
<1>3. CASE PrimaryProposes(n, r, done)
    <2>. DEFINE id == SlotId(viewNumber[n], NextNumber(n))
                pp == [number |-> id, digest |-> r, request |-> r, signer |-> n]
    <2>1. /\ log' = [log EXCEPT ![n][id] = ProposedSlot(r, r)]
          /\ issuedSequenceNumber' = [issuedSequenceNumber EXCEPT ![n] = id.seqNumber]
          /\ sentPrePrepares' = sentPrePrepares \cup {pp}
          /\ inFlight' = (inFlight \ done) \cup Broadcast("PrePrepare", n, pp)
        BY <1>3 DEF PrimaryProposes
    <2>2. /\ id \in SlotIds /\ id.viewNumber = viewNumber[n]
          /\ id.seqNumber = issuedSequenceNumber[n] + 1
          /\ issuedSequenceNumber[n] \in Int
        BY <1>1, <1>3, BoundsAssumption, SlotIdType
            DEF PrimaryProposes, NextNumber, TypeOK, LedgerType
    <2>3. /\ pp.number = id /\ pp.signer = n
          /\ id.viewNumber = 0 => n = FirstPrimary /\ AsProposed(id, ProposedSlot(r, r)) = pp
        BY <1>3, <2>2
            DEF PrimaryProposes, IsPrimary, FirstPrimary, AsProposed, ProposedSlot, EmptySlot
    <2>. HIDE DEF id, pp
    <2>4. \A p \in Nodes : issuedSequenceNumber[p] <= issuedSequenceNumber'[p]
        BY <1>1, <2>1, <2>2 DEF TypeOK, LedgerType
    <2>5. issuedSequenceNumber'[n] = id.seqNumber
        BY <1>1, <2>1 DEF TypeOK, LedgerType
    <2>6. \A qq \in sentPrePrepares' \ sentPrePrepares : qq.number.viewNumber = 0 =>
             /\ qq.signer = FirstPrimary
             /\ qq.number.seqNumber > issuedSequenceNumber[FirstPrimary]
             /\ qq.number.seqNumber <= issuedSequenceNumber'[FirstPrimary]
        BY <2>1, <2>2, <2>3, <2>5
    <2>7. \A p \in Nodes, i \in SlotIds :
             SlotMoves(i, log[p][i], log'[p][i], sentPrePrepares')
        <3>1. SlotMoves(id, log[n][id], ProposedSlot(r, r), sentPrePrepares')
            BY <2>1, <2>3 DEF SlotMoves, FromFirstPrimary
        <3>. QED
            BY <1>1, <2>1, <2>2, <3>1, OneSlotMoves
    <2>8. \A packet \in inFlight' :
             packet \in inFlight \/ PacketProposed(packet, sentPrePrepares')
        BY <2>1, BroadcastKind DEF PacketProposed
    <2>. QED
        BY <1>1, <1>2, <2>1, <2>4, <2>6, <2>7, <2>8, AgreementStep
<1>4. CASE BackupForwards(n, r, done)
    <2>1. \A packet \in inFlight' : packet \in inFlight \/ packet.kind = "ClientRequest"
        BY <1>4, BroadcastKind DEF BackupForwards
    <2>. QED
        BY <1>1, <1>2, <1>4, <2>1, SameLedger, UnproposedStep DEF BackupForwards
<1>. QED
    BY <1>3, <1>4 DEF handleClientRequest

\* handlePrePrepare preserves the invariant, given a pre-prepare the first primary
\* has sent: the water marks keep out the number 0 of an empty heartbeat.
LEMMA handlePrePrepareAgreement ==
    ASSUME AgreementInv, NEW n \in Nodes, NEW pp \in PrePrepare, NEW done,
           handlePrePrepare(n, pp, done), TypeOK',
           pp.number.viewNumber = 0 /\ pp.number.seqNumber # 0 => pp \in sentPrePrepares,
           \A rpc \in rpcs' : rpc \in rpcs \/ RpcProposed(rpc, sentPrePrepares)
    PROVE  AgreementInv'
<1>1. TypeOK /\ pp.number \in SlotIds /\ pp.number.seqNumber \in Int
    BY DEF AgreementInv, PrePrepare, SlotIds
<1>2. UNCHANGED <<sentPrePrepares, changing, changeTo>>
    BY DEF handlePrePrepare, normalFrame
<1>3. CASE UNCHANGED <<log, issuedSequenceNumber>> /\ inFlight' = inFlight \ done
    BY <1>1, <1>2, <1>3, SameLedger, UnproposedStep
<1>4. CASE /\ Accepts(n, viewNumber[n], pp)
           /\ log' = [log EXCEPT ![n][pp.number] = AcceptedSlot(n, @, pp.request, pp.digest)]
           /\ issuedSequenceNumber' =
                [issuedSequenceNumber EXCEPT ![n] = Larger(@, pp.number.seqNumber)]
           /\ inFlight' = (inFlight \ done) \cup Broadcast("Prepare", n, PrepareFor(n, pp))
    <2>. DEFINE id == pp.number
                slot == AcceptedSlot(n, log[n][id], pp.request, pp.digest)
    <2>1. pp.number.seqNumber # 0
        <3>1. lastCheckpoint[n].number.seqNumber \in 0..MaxSeq
            BY <1>1 DEF TypeOK, CheckpointType, CheckpointProof, SlotIds
        <3>2. id.seqNumber > lastCheckpoint[n].number.seqNumber
            BY <1>4 DEF Accepts, WithinWaterMarks
        <3>. QED
            BY <1>1, <3>1, <3>2, BoundsAssumption
    <2>2. id.viewNumber = 0 => AsProposed(id, slot) \in sentPrePrepares
        <3>1. slot.request = pp.request /\ slot.requestDigest = pp.digest
            BY <1>1, SlotOfType DEF AcceptedSlot, Slot
        <3>2. id.viewNumber = 0 => pp.signer = FirstPrimary
            BY <1>4 DEF Accepts, FirstPrimary
        <3>3. id.viewNumber = 0 => AsProposed(id, slot) = pp
            BY <3>1, <3>2 DEF AsProposed, PrePrepare
        <3>. QED
            BY <2>1, <3>3
    <2>3. SlotMoves(id, log[n][id], slot, sentPrePrepares)
        BY <2>2 DEF SlotMoves, FromFirstPrimary
    <2>4. log' = [log EXCEPT ![n][id] = slot]
        BY <1>4
    <2>5. \A p \in Nodes, i \in SlotIds :
             SlotMoves(i, log[p][i], log'[p][i], sentPrePrepares)
        <3>. HIDE DEF id, slot
        <3>. QED
            BY <1>1, <2>3, <2>4, OneSlotMoves DEF id
    <2>6. \A packet \in inFlight' : packet \in inFlight \/ packet.kind = "Prepare"
        BY <1>4, BroadcastKind
    <2>. QED
        BY <1>1, <1>2, <1>4, <2>5, <2>6, IssuedGrows, UnproposedStep
<1>. QED
    BY <1>3, <1>4 DEF handlePrePrepare

\* A pre-prepare that comes in a broadcast preserves the invariant.
LEMMA PrePrepareReceivedAgreement ==
    ASSUME AgreementInv, NEW packet \in inFlight, PrePrepareReceived(packet)
    PROVE  AgreementInv'
<1>1. TypeOK' /\ packet.to \in Nodes /\ packet.message \in PrePrepare
    BY PrePrepareReceivedType, PacketType DEF AgreementInv, TypeOK, PrePrepareReceived, Delivered
<1>2. packet.message \in sentPrePrepares
    BY DEF AgreementInv, PacketsProposed, PacketProposed, PrePrepareReceived, Delivered
<1>. QED
    BY <1>1, <1>2, handlePrePrepareAgreement DEF PrePrepareReceived

\* handlePrepare preserves the invariant: a vote changes no request.
LEMMA handlePrepareAgreement ==
    ASSUME AgreementInv, NEW packet \in inFlight, handlePrepare(packet)
    PROVE  AgreementInv'
<1>. DEFINE n == packet.to
            message == packet.message
            id == message.number
            slot == CountPrepare(log[n][id], message.node)
<1>1. TypeOK /\ TypeOK' /\ n \in Nodes /\ id \in SlotIds
    BY handlePrepareType, PacketType DEF AgreementInv, TypeOK, handlePrepare, Delivered, Prepare
<1>2. UNCHANGED <<issuedSequenceNumber, sentPrePrepares, changing, changeTo, rpcs>>
    BY DEF handlePrepare, normalFrame
<1>3. /\ SlotMoves(id, log[n][id], slot, sentPrePrepares)
      /\ SlotMoves(id, log[n][id], CountCommit(slot, n), sentPrePrepares)
    BY <1>1, SlotOfType DEF SlotMoves, CountPrepare, CountCommit, Slot
<1>4. \/ log' = [log EXCEPT ![n][id] = slot]
      \/ log' = [log EXCEPT ![n][id] = CountCommit(slot, n)]
    BY DEF handlePrepare
<1>5. \A packet2 \in inFlight' : packet2 \in inFlight \/ packet2.kind = "Commit"
    BY BroadcastKind DEF handlePrepare
<1>. HIDE DEF n, message, id, slot
<1>6. \A p \in Nodes, i \in SlotIds : SlotMoves(i, log[p][i], log'[p][i], sentPrePrepares)
    BY <1>1, <1>3, <1>4, OneSlotMoves
<1>7. \A p \in Nodes : issuedSequenceNumber[p] <= issuedSequenceNumber'[p]
    BY <1>1, <1>2 DEF TypeOK, LedgerType
<1>. QED
    BY <1>1, <1>2, <1>5, <1>6, <1>7, UnproposedStep

\* handleCommit preserves the invariant, for the same reason.
LEMMA handleCommitAgreement ==
    ASSUME AgreementInv, NEW packet \in inFlight, handleCommit(packet)
    PROVE  AgreementInv'
<1>. DEFINE n == packet.to
            id == packet.message.number
            slot == CountCommit(log[n][id], packet.message.node)
            done == [slot EXCEPT !.committed = TRUE]
<1>1. TypeOK /\ TypeOK' /\ n \in Nodes /\ id \in SlotIds
    BY handleCommitType, PacketType DEF AgreementInv, TypeOK, handleCommit, Delivered, Commit
<1>2. /\ UNCHANGED <<issuedSequenceNumber, sentPrePrepares, changing, changeTo, rpcs>>
      /\ inFlight' \subseteq inFlight
    BY DEF handleCommit, normalFrame, normalMessages
<1>3. /\ SlotMoves(id, log[n][id], slot, sentPrePrepares)
      /\ SlotMoves(id, log[n][id], done, sentPrePrepares)
    BY <1>1, SlotOfType DEF SlotMoves, CountCommit, Slot
<1>4. \/ log' = [log EXCEPT ![n][id] = slot]
      \/ log' = [log EXCEPT ![n][id] = done]
    BY DEF handleCommit
<1>. HIDE DEF n, id, slot, done
<1>5. \A p \in Nodes, i \in SlotIds : SlotMoves(i, log[p][i], log'[p][i], sentPrePrepares)
    BY <1>1, <1>3, <1>4, OneSlotMoves
<1>6. \A p \in Nodes : issuedSequenceNumber[p] <= issuedSequenceNumber'[p]
    BY <1>1, <1>2 DEF TypeOK, LedgerType
<1>. QED
    BY <1>1, <1>2, <1>5, <1>6, UnproposedStep

-----------------------------------------------------------------------------
\* What a heartbeat of a primary sends again it has proposed.
LEMMA HeartbeatRpcProposed ==
    ASSUME AgreementInv, NEW n \in Nodes, NEW p \in Nodes, IsPrimary(n), ~HeartbeatPanics(n, p)
    PROVE  RpcProposed(HeartbeatRpc(n, p), sentPrePrepares)
<1>. DEFINE id == ResendSlot(n, p)
<1>1. CASE ~Resends(n, p) \/ caughtUp[n][p] = 0 \/ caughtUp[n][p] = sequenceNumber[n]
    <2>1. \A kind, body : StartRpc(kind, n, p, body).kind = kind
                       /\ StartRpc(kind, n, p, body).body = body
        BY DEF StartRpc
    <2>2. Heartbeat(n).number.seqNumber = 0
        BY DEF Heartbeat, SlotId
    <2>. QED
        BY <1>1, <2>1, <2>2 DEF HeartbeatRpc, RpcProposed
<1>2. CASE Resends(n, p) /\ caughtUp[n][p] # 0 /\ caughtUp[n][p] # sequenceNumber[n]
    <2>1. id \in SlotIds /\ log[n][id].request # Nil
        BY <1>2 DEF HeartbeatPanics
    <2>2. HeartbeatRpc(n, p) = StartRpc("PrePrepare", n, p, Resent(n, p))
        BY <1>2 DEF HeartbeatRpc
    <2>3. id.viewNumber = viewNumber[n] /\ Resent(n, p).number = id
        BY DEF ResendSlot, SlotId, Resent, ResentAs
    <2>4. id.viewNumber = 0 => Resent(n, p) = AsProposed(id, log[n][id])
        BY <2>3 DEF Resent, ResentAs, AsProposed, IsPrimary, FirstPrimary
    <2>. HIDE DEF id
    <2>5. id.viewNumber = 0 => Resent(n, p) \in sentPrePrepares
        BY <2>1, <2>4 DEF AgreementInv, LogProposed, FromFirstPrimary
    <2>. QED
        BY <2>2, <2>3, <2>5 DEF RpcProposed, StartRpc
<1>. QED
    BY <1>1, <1>2

\* SendHeartbeat preserves the invariant.
LEMMA SendHeartbeatAgreement ==
    ASSUME AgreementInv, NEW n \in Nodes, SendHeartbeat(n)
    PROVE  AgreementInv'
<1>. DEFINE unsafe == {p \in Peers(n) : HeartbeatPanics(n, p)}
<1>1. TypeOK /\ TypeOK'
    BY SendHeartbeatType DEF AgreementInv
<1>2. PICK visited \in SUBSET (Linked("Heartbeat", n) \ unsafe) :
         rpcs' = rpcs \cup {HeartbeatRpc(n, p) : p \in visited}
    BY DEF SendHeartbeat
<1>3. \A p \in visited : p \in Nodes /\ ~HeartbeatPanics(n, p)
    BY NodesAssumption DEF Linked, Peers, MessageKinds
<1>4. \A rpc \in rpcs' : rpc \in rpcs \/ RpcProposed(rpc, sentPrePrepares)
    BY <1>2, <1>3, HeartbeatRpcProposed DEF SendHeartbeat
<1>5. UNCHANGED <<log, issuedSequenceNumber, sentPrePrepares, changing, changeTo, inFlight>>
    BY DEF SendHeartbeat, ledgerVars, changeVars, normalMessages
<1>. QED
    BY <1>1, <1>4, <1>5, SameLedger, UnproposedStep

\* Starting a view change to a later view than the first preserves the invariant.
LEMMA startViewChangeAgreement ==
    ASSUME AgreementInv, TypeOK', NEW n \in Nodes, NEW view \in Int, NEW done,
           startViewChange(n, view, done), view >= 1,
           UNCHANGED <<log, issuedSequenceNumber, sentPrePrepares, rpcs>>
    PROVE  AgreementInv'
<1>1. TypeOK
    BY DEF AgreementInv
<1>2. \A packet \in inFlight' :
         packet \in inFlight \/ PacketProposed(packet, sentPrePrepares')
    <2>. DEFINE vc == [viewNumber |-> view, checkpoint |-> lastCheckpoint[n].number,
                       proofs |-> PreparedProofs(n), node |-> n]
    <2>1. inFlight' = (inFlight \ done) \cup Broadcast("ViewChange", n, vc)
        BY DEF startViewChange
    <2>2. vc.viewNumber >= 1
        OBVIOUS
    <2>. HIDE DEF vc
    <2>. QED
        BY <2>1, <2>2, BroadcastKind DEF PacketProposed
<1>3. \A p \in Nodes :
         \/ changing'[p] = changing[p] /\ changeTo'[p] = changeTo[p]
         \/ changing'[p] => changeTo'[p] >= 1
    BY <1>1 DEF startViewChange, TypeOK, ChangeType
<1>4. /\ \A p \in Nodes : issuedSequenceNumber[p] <= issuedSequenceNumber'[p]
      /\ \A p \in Nodes, id \in SlotIds :
            SlotMoves(id, log[p][id], log'[p][id], sentPrePrepares')
    BY <1>1, SameLedger
<1>. QED
    BY <1>2, <1>3, <1>4, AgreementStep

\* Timeout preserves the invariant: a backup asks for the view after its own.
LEMMA TimeoutAgreement ==
    ASSUME AgreementInv, NEW n \in Nodes, Timeout(n)
    PROVE  AgreementInv'
<1>1. TypeOK /\ TypeOK' /\ viewNumber[n] \in Nat
    BY TimeoutType DEF AgreementInv, TypeOK, LedgerType
<1>2. UNCHANGED <<log, issuedSequenceNumber, sentPrePrepares, rpcs>>
    BY DEF Timeout, ledgerVars, normalMessages
<1>3. CASE startViewChange(n, viewNumber[n] + 1, {})
    BY <1>1, <1>2, <1>3, startViewChangeAgreement
<1>4. CASE UNCHANGED <<changing, changeTo, inFlight>>
    BY <1>1, <1>2, <1>4, SameLedger, UnproposedStep
<1>. QED
    BY <1>3, <1>4 DEF Timeout

\* A log of one node that changes in slots of later views than the first.
LEMMA LaterSlotsMove ==
    ASSUME NEW n \in Nodes, \A p \in Nodes \ {n} : log'[p] = log[p],
           \A id \in SlotIds : id.viewNumber = 0 => log'[n][id] = log[n][id]
    PROVE  \A p \in Nodes, id \in SlotIds :
              SlotMoves(id, log[p][id], log'[p][id], sentPrePrepares')
<1>. SUFFICES ASSUME NEW p \in Nodes, NEW id \in SlotIds
              PROVE  SlotMoves(id, log[p][id], log'[p][id], sentPrePrepares')
    OBVIOUS
<1>1. CASE id.viewNumber # 0
    BY <1>1 DEF SlotMoves, FromFirstPrimary
<1>2. CASE id.viewNumber = 0
    BY <1>2 DEF SlotMoves
<1>. QED
    BY <1>1, <1>2

\* The view a node is in or changes to is a number.
LEMMA CurrentViewType ==
    ASSUME TypeOK, NEW n \in Nodes
    PROVE  CurrentView(n) \in Nat
BY DEF CurrentView, TypeOK, LedgerType, ChangeType

\* handleViewChange preserves the invariant: nobody leads into view 0, which no
\* view change asks for.
LEMMA handleViewChangeAgreement ==
    ASSUME AgreementInv, NEW packet \in inFlight, handleViewChange(packet)
    PROVE  AgreementInv'
<1>. DEFINE n == packet.to
            vc == packet.message
            messages == Received(n, vc)
<1>1. TypeOK /\ TypeOK' /\ n \in Nodes /\ vc.viewNumber \in Int
    <2>1. TypeOK /\ packet \in Packet /\ packet.kind = "ViewChange"
        BY DEF AgreementInv, TypeOK, handleViewChange, Delivered
    <2>2. n \in Nodes /\ vc \in ViewChange
        BY <2>1, PacketType
    <2>. QED
        BY <2>1, <2>2, handleViewChangeType, BoundsAssumption DEF ViewChange
<1>2. vc.viewNumber >= 1
    BY DEF AgreementInv, PacketsProposed, PacketProposed, handleViewChange, Delivered
<1>3. UNCHANGED sentPrePrepares
    BY DEF handleViewChange, viewChangeFrame
<1>4. ASSUME NEW view \in 0..MaxView, startViewChange(n, view, {packet}),
             Lowest(view, {m.viewNumber : m \in HigherThan(CurrentView(n), messages)}),
             UNCHANGED <<log, issuedSequenceNumber, rpcs>>
      PROVE  AgreementInv'
    <2>1. view > CurrentView(n)
        BY <1>4 DEF Lowest, HigherThan
    <2>2. view >= 1
        BY <1>1, <2>1, CurrentViewType
    <2>. QED
        BY <1>1, <1>3, <1>4, <2>2, startViewChangeAgreement
<1>5. CASE LeadNewView(n, vc.viewNumber, messages) /\ inFlight' = inFlight \ {packet}
           /\ UNCHANGED changeTo
    <2>. DEFINE proofs == UNION {m.proofs : m \in messages}
                numbers == PreparedNumbers(messages)
    <2>0. PICK minS \in 0..MaxSeq, maxS \in 0..MaxSeq, chosen \in [numbers -> proofs] :
              AnnounceView(n, vc.viewNumber,
                           NewPrePrepares(n, vc.viewNumber, minS, maxS, proofs, chosen), maxS)
        BY <1>5 DEF LeadNewView
    <2>. DEFINE pps == NewPrePrepares(n, vc.viewNumber, minS, maxS, proofs, chosen)
    <2>1. \A pp \in pps : pp.number.viewNumber = vc.viewNumber
        BY DEF NewPrePrepares, SlotId
    <2>2. AnnounceView(n, vc.viewNumber, pps, maxS)
        BY <2>0
    <2>. HIDE DEF pps
    <2>3. /\ log' = [log EXCEPT ![n] = WithProposed(@, pps)]
          /\ issuedSequenceNumber' = [issuedSequenceNumber EXCEPT ![n] = Larger(@, maxS)]
          /\ changing' = [changing EXCEPT ![n] = FALSE]
        BY <2>2 DEF AnnounceView, enterNewView
    <2>4. \A rpc \in rpcs' : rpc \in rpcs \/ RpcProposed(rpc, sentPrePrepares')
        BY <2>2 DEF AnnounceView, StartRpc, RpcProposed
    <2>5. \A id \in SlotIds : id.viewNumber = 0 => WithProposed(log[n], pps)[id] = log[n][id]
        BY <1>1, <1>2, <2>1 DEF WithProposed
    <2>6. \A p \in Nodes, id \in SlotIds :
             SlotMoves(id, log[p][id], log'[p][id], sentPrePrepares')
        <3>1. log'[n] = WithProposed(log[n], pps) /\ \A p \in Nodes \ {n} : log'[p] = log[p]
            BY <1>1, <2>3 DEF TypeOK, LedgerType
        <3>. HIDE DEF n
        <3>. QED
            BY <1>1, <2>5, <3>1, LaterSlotsMove
    <2>7. \A p \in Nodes : issuedSequenceNumber[p] <= issuedSequenceNumber'[p]
        <3>1. maxS \in Int
            BY BoundsAssumption
        <3>. HIDE DEF n
        <3>. QED
            BY <1>1, <2>3, <3>1, IssuedGrows
    <2>8. \A p \in Nodes :
             \/ changing'[p] = changing[p] /\ changeTo'[p] = changeTo[p]
             \/ changing'[p] => changeTo'[p] >= 1
        BY <1>1, <1>5, <2>3 DEF TypeOK, ChangeType
    <2>. QED
        BY <1>1, <1>3, <1>5, <2>4, <2>6, <2>7, <2>8, AgreementStep
<1>6. CASE /\ UNCHANGED <<log, issuedSequenceNumber, changing, changeTo, rpcs>>
           /\ inFlight' = inFlight \ {packet}
    BY <1>1, <1>3, <1>6, SameLedger, UnproposedStep
<1>. QED
    BY <1>4, <1>5, <1>6 DEF handleViewChange

\* handleNewView preserves the invariant: a backup accepts no NewView for view 0.
LEMMA handleNewViewAgreement ==
    ASSUME AgreementInv, NEW n \in Nodes, NEW nv \in NewView, handleNewView(n, nv), TypeOK',
           \A rpc \in rpcs' : rpc \in rpcs \/ RpcProposed(rpc, sentPrePrepares)
    PROVE  AgreementInv'
<1>1. TypeOK /\ nv.viewNumber \in Int
    BY DEF AgreementInv, NewView
<1>2. UNCHANGED <<sentPrePrepares, changeTo>>
    BY DEF handleNewView, viewChangeFrame
<1>. DEFINE accepted == {pp \in nv.prePrepares : /\ pp.number.seqNumber > ResumeAt(n)
                                                 /\ Accepts(n, nv.viewNumber, pp)}
            prepares == {PrepareFor(n, pp) : pp \in accepted}
<1>3. CASE AcceptsNewView(n, nv) /\ EnterAsBackup(n, nv)
    <2>1. nv.viewNumber >= 1
        BY <1>1, <1>3, CurrentViewType DEF AcceptsNewView, AgreementInv, ChangesLater
    <2>2. \A pp \in accepted : pp.number.viewNumber = nv.viewNumber
        BY DEF Accepts
    <2>3. \A packet \in inFlight' : packet \in inFlight \/ packet.kind = "Prepare"
        <3>1. inFlight' = inFlight \cup UNION {Broadcast("Prepare", n, m) : m \in prepares}
            BY <1>3 DEF EnterAsBackup
        <3>. QED
            BY <3>1, BroadcastKind
    <2>4. \A packet \in inFlight' :
             packet \in inFlight \/ PacketProposed(packet, sentPrePrepares')
        BY <2>3 DEF PacketProposed
    <2>5. \A p \in Nodes :
             \/ changing'[p] = changing[p] /\ changeTo'[p] = changeTo[p]
             \/ changing'[p] => changeTo'[p] >= 1
        BY <1>1, <1>2, <1>3 DEF EnterAsBackup, enterNewView, TypeOK, ChangeType
    <2>6. CASE UNCHANGED <<log, issuedSequenceNumber>>
        BY <1>1, <1>2, <2>4, <2>5, <2>6, SameLedger, AgreementStep
    <2>7. ASSUME NEW last, NEW maxS \in 0..MaxSeq,
                 log' = [log EXCEPT ![n] = WithAccepted(n, @, accepted, last)],
                 issuedSequenceNumber' = [issuedSequenceNumber EXCEPT ![n] = Larger(@, maxS)]
          PROVE  AgreementInv'
        <3>. HIDE DEF accepted
        <3>1. \A id \in SlotIds :
                 id.viewNumber = 0 => WithAccepted(n, log[n], accepted, last)[id] = log[n][id]
            BY <1>1, <2>1, <2>2 DEF WithAccepted
        <3>2. \A p \in Nodes, id \in SlotIds :
                 SlotMoves(id, log[p][id], log'[p][id], sentPrePrepares')
            <4>1. /\ log'[n] = WithAccepted(n, log[n], accepted, last)
                  /\ \A p \in Nodes \ {n} : log'[p] = log[p]
                BY <1>1, <2>7 DEF TypeOK, LedgerType
            <4>. QED
                BY <3>1, <4>1, LaterSlotsMove
        <3>3. \A p \in Nodes : issuedSequenceNumber[p] <= issuedSequenceNumber'[p]
            <4>1. maxS \in Int
                BY BoundsAssumption
            <4>. QED
                BY <1>1, <2>7, <4>1, IssuedGrows
        <3>. QED
            BY <1>1, <1>2, <2>4, <2>5, <3>2, <3>3, AgreementStep
    <2>. QED
        BY <1>3, <2>6, <2>7 DEF EnterAsBackup
<1>4. CASE UNCHANGED <<log, issuedSequenceNumber, changing, inFlight>>
    BY <1>1, <1>2, <1>4, SameLedger, UnproposedStep
<1>. QED
    BY <1>3, <1>4 DEF handleNewView

\* handleCheckpointProof preserves the invariant.
LEMMA handleCheckpointProofAgreement ==
    ASSUME AgreementInv, NEW n \in Nodes, NEW proof, handleCheckpointProof(n, proof), TypeOK',
           \A rpc \in rpcs' : rpc \in rpcs \/ RpcProposed(rpc, sentPrePrepares)
    PROVE  AgreementInv'
<1>1. \A p \in Nodes, id \in SlotIds : log'[p][id] = log[p][id] \/ log'[p][id] = EmptySlot
    <2>. DEFINE flushed == Flushed(pendingCheckpoints[n], proof.number)
                kept == [id \in SlotIds |-> IF id \in flushed THEN EmptySlot ELSE log[n][id]]
    <2>1. UNCHANGED log \/ log' = [log EXCEPT ![n] = kept]
        BY DEF handleCheckpointProof, Checkpointed
    <2>2. log \in [Nodes -> [SlotIds -> Slot]]
        BY DEF AgreementInv, TypeOK, LedgerType
    <2>3. \A id \in SlotIds : kept[id] = log[n][id] \/ kept[id] = EmptySlot
        OBVIOUS
    <2>. HIDE DEF kept
    <2>. QED
        BY <2>1, <2>2, <2>3
<1>2. UNCHANGED <<issuedSequenceNumber, sentPrePrepares, changing, changeTo, inFlight>>
    BY DEF handleCheckpointProof, checkpointFrame, normalMessages, changeVars
<1>3. TypeOK
    BY DEF AgreementInv
<1>. QED
    BY <1>1, <1>2, <1>3, ClearedLedger, UnproposedStep

\* Handling a heartbeat RPC preserves the invariant.
LEMMA RpcHandledAgreement ==
    ASSUME AgreementInv, NEW rpc \in rpcs, RpcHandled(rpc)
    PROVE  AgreementInv'
<1>1. TypeOK /\ TypeOK' /\ rpc \in Rpc /\ RpcProposed(rpc, sentPrePrepares)
    BY RpcHandledType DEF AgreementInv, TypeOK, ResentAsProposed, RpcProposed
<1>2. \A r \in rpcs' : r \in rpcs \/ RpcProposed(r, sentPrePrepares)
    <2>1. RpcProposed([rpc EXCEPT !.stage = "replied"], sentPrePrepares)
        BY <1>1 DEF RpcProposed, Rpc, RpcOf
    <2>. QED
        BY <2>1 DEF RpcHandled
<1>3. CASE rpc.kind = "NewView" /\ handleNewView(rpc.to, rpc.body)
    BY <1>1, <1>2, <1>3, RpcType, handleNewViewAgreement
<1>4. CASE rpc.kind = "PrePrepare" /\ handlePrePrepare(rpc.to, rpc.body, {})
    BY <1>1, <1>2, <1>4, RpcType, handlePrePrepareAgreement DEF RpcProposed
<1>5. CASE rpc.kind = "CheckpointProof" /\ handleCheckpointProof(rpc.to, rpc.body)
    BY <1>1, <1>2, <1>5, RpcType, handleCheckpointProofAgreement
<1>. QED
    BY <1>3, <1>4, <1>5 DEF RpcHandled

-----------------------------------------------------------------------------
\* The invariant holds of a cluster that has just started.
LEMMA AgreementInit == Init => AgreementInv
<1>. SUFFICES ASSUME Init PROVE AgreementInv
    OBVIOUS
<1>1. TypeOK
    BY InitType
<1>2. LogProposed
    BY DEF Init, LogProposed, FromFirstPrimary, EmptySlot
<1>. QED
    BY <1>1, <1>2 DEF Init, AgreementInv, IssuedByPrimary, ProposedOnce, PacketsProposed,
        ResentAsProposed, ChangesLater

\* Every step preserves the invariant.
LEMMA AgreementNext == AgreementInv /\ [Next]_vars => AgreementInv'
<1>. SUFFICES ASSUME AgreementInv, [Next]_vars
              PROVE  AgreementInv'
    OBVIOUS
<1>1. ASSUME NEW n \in Nodes, NEW r \in Requests, Propose(n, r)
      PROVE  AgreementInv'
    BY <1>1, handleClientRequestAgreement DEF Propose
<1>2. ASSUME NEW packet \in inFlight, ClientRequest(packet)
      PROVE  AgreementInv'
    <2>1. packet.to \in Nodes /\ packet.message.request \in Requests
        BY <1>2, PacketType
            DEF AgreementInv, TypeOK, ClientRequest, Delivered, ForwardedRequest
    <2>. QED
        BY <1>2, <2>1, handleClientRequestAgreement DEF ClientRequest
<1>3. CASE UNCHANGED vars
    <2>1. TypeOK /\ TypeOK'
        BY TypeStep DEF AgreementInv
    <2>2. UNCHANGED <<log, issuedSequenceNumber, sentPrePrepares, changing, changeTo,
                      inFlight, rpcs>>
        BY <1>3 DEF vars, ledgerVars, changeVars, normalMessages
    <2>. QED
        BY <2>1, <2>2, SameLedger, UnproposedStep
<1>. QED
    BY <1>1, <1>2, <1>3, PrePrepareReceivedAgreement, handlePrepareAgreement,
        handleCommitAgreement, handleCheckpointAgreement, handleViewChangeAgreement,
        handleRecvSnapshotAgreement, SendHeartbeatAgreement, TimeoutAgreement,
        DebugAgreement, RpcHandledAgreement, RpcMovesAgreement
        DEF Next

\* The invariant holds in every behaviour.
LEMMA AgreementInvariant == Spec => []AgreementInv
BY AgreementInit, AgreementNext, PTL DEF Spec

\* In view 0 two nodes that hold a request in the same slot hold the same one,
\* in clusters of every size and whatever messages are lost, late or unread.
THEOREM AgreementInFirstViewHolds == Spec => []AgreementInFirstView
<1>1. AgreementInv => AgreementInFirstView
    <2>1. SUFFICES ASSUME AgreementInv, NEW n \in Nodes, NEW m \in Nodes, NEW id \in SlotIds,
                          id.viewNumber = 0,
                          log[n][id].request # Nil, log[m][id].request # Nil
                   PROVE  log[n][id].request = log[m][id].request
        BY DEF AgreementInFirstView
    <2>2. /\ AsProposed(id, log[n][id]) \in sentPrePrepares
          /\ AsProposed(id, log[m][id]) \in sentPrePrepares
        BY <2>1 DEF AgreementInv, LogProposed, FromFirstPrimary
    <2>3. \A slot : AsProposed(id, slot).number = id
                 /\ AsProposed(id, slot).request = slot.request
        BY DEF AsProposed
    <2>. QED
        BY <2>1, <2>2, <2>3 DEF AgreementInv, ProposedOnce
<1>. QED
    BY <1>1, AgreementInvariant, PTL

\* A heartbeat of view 0 that proposes a request repeats a pre-prepare that was
\* broadcast, request and digest and all.
THEOREM ResentAsProposedHolds == Spec => []ResentAsProposed
<1>1. AgreementInv => ResentAsProposed
    BY DEF AgreementInv
<1>. QED
    BY <1>1, AgreementInvariant, PTL

=============================================================================
