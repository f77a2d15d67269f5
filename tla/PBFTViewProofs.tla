---------------------------- MODULE PBFTViewProofs ----------------------------
(***************************************************************************)
(* View changes.  A leader counts messages, not nodes, so that 2f of them  *)
(* come from 2f other nodes rests on what it keeps: the last message of    *)
(* each peer.  The invariant says that of every node, that what it keeps   *)
(* was sent, and of every NewView on its way, or held to be repeated, that *)
(* the leader announced it.  That a view change leads upwards makes views  *)
(* only grow.  While it lasts the node sends and logs nothing of the       *)
(* normal case; what clears a slot then is a later checkpoint.             *)
(*                                                                         *)
(* What a primary relies on.  A new one proposes again what the proofs in  *)
(* view changes say was prepared: they are of slots that hold what was     *)
(* proposed, and votes that were sent (CertificateInv), and the messages   *)
(* it keeps were sent (ViewInv).  An old one resends from the slot after   *)
(* the last its peer has executed: no answer says more than the peer has   *)
(* done, and in view 0, which no view change leads to, the peer does not   *)
(* fall back.                                                              *)
(***************************************************************************)
EXTENDS PBFTAgreementProofs, FunctionTheorems

\* The nodes that have asked for a view, but for its leader.
Asked(view, leader, sent) ==
    {vc.node : vc \in {m \in sent : m.viewNumber = view /\ m.node # leader}}

Announced(nv, sent) ==
    /\ nv.node = LeaderFor[nv.viewNumber]
    /\ Cardinality(Asked(nv.viewNumber, nv.node, sent)) >= ViewChangeQuorum

NewViewsAnnounced == \A nv \in sentNewViews : Announced(nv, sentViewChanges)

\* View 0 is announced by nobody.
Known(nv, announced) == nv.viewNumber # 0 => nv \in announced

RpcKnown(rpc, announced) == rpc.kind = "NewView" => Known(rpc.body, announced)

NewViewsKnown ==
    /\ \A n \in Nodes : Known(newView[n], sentNewViews)
    /\ \A rpc \in rpcs : RpcKnown(rpc, sentNewViews)

Entered(view, announced) == view # 0 => \E nv \in announced : nv.viewNumber = view

ViewsEntered == \A n \in Nodes : Entered(viewNumber[n], sentNewViews)

\* Messages that peers of n have sent, and one of each peer.
LastOfPeers(messages, n, sent) ==
    /\ \A m \in messages : m \in sent /\ m.node # n
    /\ \A m, o \in messages : m.node = o.node => m = o

MessagesKept == \A n \in Nodes : LastOfPeers(changeMessages[n], n, sentViewChanges)

PacketAsked(packet, sent) ==
    packet.kind = "ViewChange" => packet.message \in sent /\ packet.message.node # packet.to

PacketsAsked == \A packet \in inFlight : PacketAsked(packet, sentViewChanges)

ChangesForward == \A n \in Nodes : changing[n] => changeTo[n] > viewNumber[n]

ViewInv ==
    /\ TypeOK
    /\ NewViewsAnnounced /\ NewViewsKnown /\ ViewsEntered
    /\ MessagesKept /\ PacketsAsked /\ ChangesForward

-----------------------------------------------------------------------------
\* An announced view stays announced as messages are sent: none is ever unsent.
LEMMA AnnouncedGrows ==
    ASSUME NEW nv, NEW S, NEW S2, S \subseteq S2, \A m \in S2 : m.node \in Nodes,
           Announced(nv, S)
    PROVE  Announced(nv, S2)
<1>. DEFINE few == Asked(nv.viewNumber, nv.node, S)
            many == Asked(nv.viewNumber, nv.node, S2)
<1>1. few \subseteq many /\ many \subseteq Nodes
    BY DEF Asked
<1>2. IsFiniteSet(many)
    BY <1>1, FS_Subset, NodesAssumption
<1>3. IsFiniteSet(few) /\ Cardinality(few) <= Cardinality(many)
    BY <1>1, <1>2, FS_Subset
<1>4. Cardinality(few) \in Int /\ Cardinality(many) \in Int /\ ViewChangeQuorum \in Int
    BY <1>2, <1>3, FS_CardinalityType, NodesAssumption DEF ViewChangeQuorum, NPeers
<1>. HIDE DEF few, many
<1>5. Cardinality(few) >= ViewChangeQuorum => Cardinality(many) >= ViewChangeQuorum
    BY <1>3, <1>4
<1>. QED
    BY <1>5 DEF Announced, few, many

\* What a step must do for the invariant to survive it.
LEMMA ViewStep ==
    ASSUME ViewInv, TypeOK',
           sentViewChanges \subseteq sentViewChanges', sentNewViews \subseteq sentNewViews',
           \A nv \in sentNewViews' \ sentNewViews : Announced(nv, sentViewChanges'),
           \A n \in Nodes : newView'[n] = newView[n] \/ newView'[n] \in sentNewViews',
           \A rpc \in rpcs' : rpc \in rpcs \/ RpcKnown(rpc, sentNewViews'),
           \A n \in Nodes :
               viewNumber'[n] = viewNumber[n] \/ Entered(viewNumber'[n], sentNewViews'),
           \A n \in Nodes :
               \/ changeMessages'[n] = changeMessages[n]
               \/ LastOfPeers(changeMessages'[n], n, sentViewChanges'),
           \A packet \in inFlight' :
               packet \in inFlight \/ PacketAsked(packet, sentViewChanges'),
           \A n \in Nodes :
               \/ /\ changing'[n] = changing[n] /\ changeTo'[n] = changeTo[n]
                  /\ viewNumber'[n] = viewNumber[n]
               \/ changing'[n] => changeTo'[n] > viewNumber'[n]
    PROVE  ViewInv'
<1>1. NewViewsAnnounced'
    <2>1. \A m \in sentViewChanges' : m.node \in Nodes
        BY DEF TypeOK, SentType, ViewChange
    <2>. QED
        BY <2>1, AnnouncedGrows DEF ViewInv, NewViewsAnnounced
<1>2. NewViewsKnown'
    BY DEF ViewInv, NewViewsKnown, RpcKnown, Known
<1>3. ViewsEntered'
    BY DEF ViewInv, ViewsEntered, Entered
<1>4. MessagesKept'
    BY DEF ViewInv, MessagesKept, LastOfPeers
<1>5. PacketsAsked'
    BY DEF ViewInv, PacketsAsked, PacketAsked
<1>6. ChangesForward'
    BY DEF ViewInv, ChangesForward
<1>. QED
    BY <1>1, <1>2, <1>3, <1>4, <1>5, <1>6 DEF ViewInv

\* Steps that leave views and view changes as they are.
LEMMA SameViewStep ==
    ASSUME ViewInv, TypeOK', UNCHANGED <<viewNumber, changeVars, newView, changeMessageVars>>,
           \A packet \in inFlight' :
               \/ packet \in inFlight
               \/ packet.kind # "ViewChange"
               \/ \E old \in inFlight : packet = [old EXCEPT !.accepted = TRUE],
           \A rpc \in rpcs' : rpc \in rpcs \/ RpcKnown(rpc, sentNewViews)
    PROVE  ViewInv'
<1>1. ASSUME NEW old \in inFlight
      PROVE  PacketAsked([old EXCEPT !.accepted = TRUE], sentViewChanges)
    <2>1. PacketAsked(old, sentViewChanges) /\ old \in Packet
        BY DEF ViewInv, PacketsAsked, TypeOK
    <2>. QED
        BY <2>1 DEF PacketAsked, Packet, PacketOf
<1>2. \A packet \in inFlight' : packet \in inFlight \/ PacketAsked(packet, sentViewChanges')
    BY <1>1 DEF PacketAsked, changeMessageVars
<1>. QED
    BY <1>2, ViewStep DEF changeVars, changeMessageVars

-----------------------------------------------------------------------------
\* The handlers of the normal case broadcast no view change.
LEMMA NoViewChangeSent ==
    ASSUME NEW n \in Nodes, NEW done,
           \/ \E r \in Requests : handleClientRequest(n, r, done)
           \/ \E pp \in PrePrepare : handlePrePrepare(n, pp, done)
    PROVE  \A packet \in inFlight' : packet \in inFlight \/ packet.kind # "ViewChange"
<1>1. ASSUME NEW r \in Requests, handleClientRequest(n, r, done)
      PROVE  \A packet \in inFlight' :
                packet \in inFlight \/ packet.kind \in {"PrePrepare", "ClientRequest"}
    <2>1. CASE PrimaryProposes(n, r, done)
        BY <2>1, BroadcastKind DEF PrimaryProposes
    <2>2. CASE BackupForwards(n, r, done)
        BY <2>2, BroadcastKind DEF BackupForwards
    <2>. QED
        BY <1>1, <2>1, <2>2 DEF handleClientRequest
<1>2. ASSUME NEW pp \in PrePrepare, handlePrePrepare(n, pp, done)
      PROVE  \A packet \in inFlight' : packet \in inFlight \/ packet.kind = "Prepare"
    BY <1>2, BroadcastKind DEF handlePrePrepare
<1>. QED
    BY <1>1, <1>2

\* handleClientRequest and handlePrePrepare.
LEMMA ProposalView ==
    ASSUME ViewInv, TypeOK',
           \/ \E n \in Nodes, r \in Requests : Propose(n, r)
           \/ \E packet \in inFlight : ClientRequest(packet) \/ PrePrepareReceived(packet)
    PROVE  ViewInv'
<1>1. UNCHANGED <<viewNumber, changeVars, newView, changeMessageVars, rpcs>>
    BY DEF Propose, ClientRequest, handleClientRequest, PrePrepareReceived, handlePrePrepare,
        normalFrame, leaderVars, changeVars, changeMessageVars
<1>2. \A packet \in inFlight' : packet \in inFlight \/ packet.kind # "ViewChange"
    <2>1. ASSUME NEW n \in Nodes, NEW r \in Requests, Propose(n, r)
          PROVE  \A packet \in inFlight' : packet \in inFlight \/ packet.kind # "ViewChange"
        BY <2>1, NoViewChangeSent DEF Propose
    <2>2. ASSUME NEW packet \in inFlight
          PROVE  /\ packet.to \in Nodes
                 /\ packet.kind = "ClientRequest" => packet.message.request \in Requests
                 /\ packet.kind = "PrePrepare" => packet.message \in PrePrepare
        BY PacketType DEF ViewInv, TypeOK, ForwardedRequest
    <2>3. ASSUME NEW packet \in inFlight, ClientRequest(packet)
          PROVE  \A other \in inFlight' : other \in inFlight \/ other.kind # "ViewChange"
        BY <2>2, <2>3, NoViewChangeSent DEF ClientRequest, Delivered
    <2>4. ASSUME NEW packet \in inFlight, PrePrepareReceived(packet)
          PROVE  \A other \in inFlight' : other \in inFlight \/ other.kind # "ViewChange"
        BY <2>2, <2>4, NoViewChangeSent DEF PrePrepareReceived, Delivered
    <2>. QED
        BY <2>1, <2>3, <2>4
<1>. QED
    BY <1>1, <1>2, SameViewStep

\* Prepares, commits, checkpoints and the debug switch.
LEMMA VoteView ==
    ASSUME ViewInv, TypeOK',
           \/ \E packet \in inFlight : \/ handlePrepare(packet) \/ handleCommit(packet)
                                       \/ handleCheckpoint(packet)
           \/ \E n \in Nodes : handleRecvSnapshot(n) \/ DebugDown(n) \/ DebugUp(n)
    PROVE  ViewInv'
<1>1. UNCHANGED <<viewNumber, changeVars, newView, changeMessageVars, rpcs>>
    BY DEF handlePrepare, handleCommit, handleCheckpoint, handleRecvSnapshot, DebugDown,
        DebugUp, debugFrame, ledgerVars, normalFrame, checkpointFrame, leaderVars, changeVars,
        changeMessageVars
<1>2. \A packet \in inFlight' :
         \/ packet \in inFlight \/ packet.kind # "ViewChange"
         \/ \E old \in inFlight : packet = [old EXCEPT !.accepted = TRUE]
    <2>1. ASSUME NEW packet \in inFlight, handlePrepare(packet)
          PROVE  \A other \in inFlight' : other \in inFlight \/ other.kind = "Commit"
        BY <2>1, BroadcastKind, SMTT(30) DEF handlePrepare
    <2>2. ASSUME NEW n \in Nodes, handleRecvSnapshot(n)
          PROVE  \A other \in inFlight' : other \in inFlight \/ other.kind = "Checkpoint"
        BY <2>2, BroadcastKind DEF handleRecvSnapshot
    <2>3. ASSUME NEW n \in Nodes, DebugDown(n) \/ DebugUp(n)
          PROVE  \A other \in inFlight' :
                    \/ other \in inFlight
                    \/ \E old \in inFlight : other = [old EXCEPT !.accepted = TRUE]
        BY <2>3 DEF DebugDown, DebugUp
    <2>4. ASSUME NEW packet \in inFlight, handleCommit(packet) \/ handleCheckpoint(packet)
          PROVE  inFlight' \subseteq inFlight
        BY <2>4 DEF handleCommit, handleCheckpoint
    <2>. QED
        BY <2>1, <2>2, <2>3, <2>4
<1>. QED
    BY <1>1, <1>2, SameViewStep

\* The ticker repeats the NewView the node has announced.
LEMMA SendHeartbeatView ==
    ASSUME ViewInv, NEW n \in Nodes, SendHeartbeat(n)
    PROVE  ViewInv'
<1>1. TypeOK'
    BY SendHeartbeatType DEF ViewInv
<1>2. \A p : RpcKnown(HeartbeatRpc(n, p), sentNewViews)
    BY DEF HeartbeatRpc, StartRpc, RpcKnown, ViewInv, NewViewsKnown
<1>3. \A rpc \in rpcs' : rpc \in rpcs \/ RpcKnown(rpc, sentNewViews)
    BY <1>2 DEF SendHeartbeat
<1>. QED
    BY <1>1, <1>3, SameViewStep DEF SendHeartbeat, ledgerVars, leaderVars

\* An RPC that moves on, without its handler.
LEMMA RpcMovesView ==
    ASSUME ViewInv, NEW rpc \in rpcs,
           RpcArrives(rpc) \/ RpcReturns(rpc) \/ RpcTimesOut(rpc)
    PROVE  ViewInv'
<1>1. TypeOK' /\ rpc \in Rpc /\ RpcKnown(rpc, sentNewViews)
    BY RpcMovesType DEF ViewInv, TypeOK, NewViewsKnown
<1>2. /\ \A s : RpcKnown([rpc EXCEPT !.stage = "arrived", !.seq = s], sentNewViews)
      /\ RpcKnown([rpc EXCEPT !.stage = "orphan"], sentNewViews)
    BY <1>1 DEF RpcKnown, Rpc, RpcOf
<1>3. \A r \in rpcs' : r \in rpcs \/ RpcKnown(r, sentNewViews)
    BY <1>2 DEF RpcArrives, RpcReturns, RpcTimesOut
<1>. QED
    BY <1>1, <1>3, SameViewStep DEF RpcArrives, RpcReturns, RpcTimesOut, rpcFrame, ledgerVars

-----------------------------------------------------------------------------
\* A node asks its peers for a later view than its own.
LEMMA startViewChangeView ==
    ASSUME ViewInv, TypeOK', NEW n \in Nodes, NEW view \in Int, NEW done,
           startViewChange(n, view, done), view > viewNumber[n],
           UNCHANGED <<viewNumber, newView, sentNewViews, rpcs>>,
           \A p \in Nodes :
               \/ changeMessages'[p] = changeMessages[p]
               \/ LastOfPeers(changeMessages'[p], p, sentViewChanges)
    PROVE  ViewInv'
<1>. DEFINE vc == [viewNumber |-> view, checkpoint |-> lastCheckpoint[n].number,
                   proofs |-> PreparedProofs(n), node |-> n]
<1>1. /\ sentViewChanges' = sentViewChanges \cup {vc}
      /\ inFlight' = (inFlight \ done) \cup Broadcast("ViewChange", n, vc)
      /\ changing' = [changing EXCEPT ![n] = TRUE]
      /\ changeTo' = [changeTo EXCEPT ![n] = view]
    BY DEF startViewChange
<1>2. vc.node = n
    OBVIOUS
<1>. HIDE DEF vc
<1>3. \A packet \in inFlight' : packet \in inFlight \/ PacketAsked(packet, sentViewChanges')
    <2>1. \A p \in Linked("ViewChange", n) : p # n
        BY NodesAssumption DEF Linked, MessageKinds
    <2>2. \A packet \in Broadcast("ViewChange", n, vc) : packet.message = vc /\ packet.to # n
        BY <2>1 DEF Broadcast
    <2>. QED
        BY <1>1, <1>2, <2>2 DEF PacketAsked
<1>4. \A p \in Nodes :
         \/ changing'[p] = changing[p] /\ changeTo'[p] = changeTo[p]
         \/ changing'[p] => changeTo'[p] > viewNumber'[p]
    BY <1>1 DEF ViewInv, TypeOK, ChangeType
<1>5. \A p \in Nodes :
         \/ changeMessages'[p] = changeMessages[p]
         \/ LastOfPeers(changeMessages'[p], p, sentViewChanges')
    BY <1>1 DEF LastOfPeers
<1>. QED
    BY <1>1, <1>3, <1>4, <1>5, ViewStep

\* A backup whose timer runs out asks for the view after its own.
LEMMA TimeoutView ==
    ASSUME ViewInv, NEW n \in Nodes, Timeout(n)
    PROVE  ViewInv'
<1>1. TypeOK' /\ viewNumber[n] \in Int
    BY TimeoutType DEF ViewInv, TypeOK, LedgerType
<1>2. UNCHANGED <<viewNumber, changeMessages, newView, sentNewViews, rpcs>>
    BY DEF Timeout, ledgerVars, leaderVars
<1>3. CASE startViewChange(n, viewNumber[n] + 1, {})
    BY <1>1, <1>2, <1>3, startViewChangeView
<1>4. CASE UNCHANGED <<changing, changeTo, sentViewChanges, inFlight>>
    BY <1>1, <1>2, <1>4, SameViewStep DEF changeVars, changeMessageVars
<1>. QED
    BY <1>3, <1>4 DEF Timeout

\* As many nodes have asked for a view as a leader counts messages for it.
LEMMA VotesAsked ==
    ASSUME NEW n \in Nodes, NEW messages, NEW sent, NEW view,
           LastOfPeers(messages, n, sent), \A m \in sent : m.node \in Nodes
    PROVE  /\ Votes(view, messages) \in Int
           /\ Votes(view, messages) <= Cardinality(Asked(view, n, sent))
<1>. DEFINE voted == {m \in messages : m.viewNumber = view}
            f == [m \in voted |-> m.node]
<1>1. Asked(view, n, sent) \subseteq Nodes
    BY DEF Asked
<1>2. IsFiniteSet(Asked(view, n, sent))
    BY <1>1, FS_Subset, NodesAssumption
<1>3. f \in [voted -> Asked(view, n, sent)]
    BY DEF LastOfPeers, Asked
<1>4. \A m, o \in voted : f[m] = f[o] => m = o
    BY DEF LastOfPeers
<1>5. f \in Injection(voted, Asked(view, n, sent))
    <2>. HIDE DEF f, voted
    <2>. QED
        BY <1>3, <1>4, Fun_IsInj
<1>6. IsFiniteSet(voted) /\ Cardinality(voted) <= Cardinality(Asked(view, n, sent))
    <2>. HIDE DEF f, voted
    <2>. QED
        BY <1>2, <1>5, FS_Injection
<1>7. Cardinality(voted) \in Int
    BY <1>6, FS_CardinalityType
<1>. QED
    BY <1>6, <1>7 DEF Votes

\* handleViewChange takes in a peer's message; with 2f for one view its leader enters.
LEMMA handleViewChangeView ==
    ASSUME ViewInv, NEW packet \in inFlight, handleViewChange(packet)
    PROVE  ViewInv'
<1>. DEFINE n == packet.to
            vc == packet.message
            messages == Received(n, vc)
<1>1. TypeOK /\ TypeOK' /\ n \in Nodes /\ vc \in ViewChange /\ vc.viewNumber \in 0..MaxView
    <2>1. TypeOK /\ packet \in Packet /\ packet.kind = "ViewChange"
        BY DEF ViewInv, TypeOK, handleViewChange, Delivered
    <2>2. n \in Nodes /\ vc \in ViewChange
        BY <2>1, PacketType
    <2>. QED
        BY <2>1, <2>2, handleViewChangeType DEF ViewChange
<1>2. LastOfPeers(messages, n, sentViewChanges)
    <2>1. vc \in sentViewChanges /\ vc.node # n
        BY DEF ViewInv, PacketsAsked, PacketAsked, handleViewChange, Delivered
    <2>2. LastOfPeers(changeMessages[n], n, sentViewChanges)
        BY <1>1 DEF ViewInv, MessagesKept
    <2>. QED
        BY <2>1, <2>2 DEF LastOfPeers, Received
<1>3. \A p \in Nodes :
         \/ changeMessages'[p] = changeMessages[p]
         \/ LastOfPeers(changeMessages'[p], p, sentViewChanges)
    <2>1. changeMessages' = [changeMessages EXCEPT ![n] = messages]
        BY DEF handleViewChange
    <2>. QED
        BY <1>1, <1>2, <2>1 DEF TypeOK, ChangeType
<1>4. ASSUME NEW view \in 0..MaxView, startViewChange(n, view, {packet}),
             Lowest(view, {m.viewNumber : m \in HigherThan(CurrentView(n), messages)}),
             UNCHANGED <<viewNumber, leaderVars, sentNewViews, rpcs>>
      PROVE  ViewInv'
    <2>1. view > CurrentView(n)
        BY <1>4 DEF Lowest, HigherThan
    <2>2. CurrentView(n) >= viewNumber[n] /\ CurrentView(n) \in Int /\ viewNumber[n] \in Int
        BY <1>1 DEF CurrentView, ViewInv, ChangesForward, TypeOK, LedgerType, ChangeType
    <2>3. view > viewNumber[n] /\ view \in Int
        BY <2>1, <2>2, BoundsAssumption
    <2>. QED
        BY <1>1, <1>3, <1>4, <2>3, startViewChangeView DEF leaderVars
<1>5. CASE /\ Leads(n, vc, messages) /\ LeadNewView(n, vc.viewNumber, messages)
           /\ inFlight' = inFlight \ {packet}
           /\ UNCHANGED <<changeTo, sentViewChanges>>
    <2>1. PICK pps, maxS : AnnounceView(n, vc.viewNumber, pps, maxS)
        BY <1>5 DEF LeadNewView
    <2>. DEFINE nv == [viewNumber |-> vc.viewNumber, prePrepares |-> pps, node |-> n]
    <2>2. /\ sentNewViews' = sentNewViews \cup {nv}
          /\ newView' = [newView EXCEPT ![n] = nv]
          /\ rpcs' = rpcs \cup {StartRpc("NewView", n, p, nv) : p \in Linked("Heartbeat", n)}
          /\ changing' = [changing EXCEPT ![n] = FALSE]
          /\ viewNumber' = [viewNumber EXCEPT ![n] = vc.viewNumber]
        BY <2>1 DEF AnnounceView, enterNewView
    <2>3. nv.viewNumber = vc.viewNumber /\ nv.node = n
        OBVIOUS
    <2>. HIDE DEF nv
    <2>4. Announced(nv, sentViewChanges')
        <3>1. \A m \in sentViewChanges : m.node \in Nodes
            BY <1>1 DEF TypeOK, SentType, ViewChange
        <3>2. /\ Votes(vc.viewNumber, messages) \in Int
              /\ Votes(vc.viewNumber, messages)
                    <= Cardinality(Asked(vc.viewNumber, n, sentViewChanges))
            <4>. HIDE DEF n, vc, messages
            <4>. QED
                BY <1>1, <1>2, <3>1, VotesAsked
        <3>. DEFINE asked == Asked(vc.viewNumber, n, sentViewChanges)
        <3>3. asked \subseteq Nodes
            BY <3>1 DEF Asked
        <3>4. Cardinality(asked) \in Int /\ ViewChangeQuorum \in Int
            BY <3>3, FS_Subset, FS_CardinalityType, NodesAssumption DEF ViewChangeQuorum, NPeers
        <3>5. Cardinality(asked) >= ViewChangeQuorum
            <4>1. Votes(vc.viewNumber, messages) >= ViewChangeQuorum
                BY <1>5 DEF Leads
            <4>. HIDE DEF n, vc, messages
            <4>. QED
                BY <3>2, <3>4, <4>1
        <3>. QED
            BY <1>5, <2>3, <3>5 DEF Announced, Leads
    <2>5. \A rpc \in rpcs' : rpc \in rpcs \/ RpcKnown(rpc, sentNewViews')
        BY <2>2 DEF StartRpc, RpcKnown, Known
    <2>6. \A p \in Nodes :
             viewNumber'[p] = viewNumber[p] \/ Entered(viewNumber'[p], sentNewViews')
        BY <1>1, <2>2, <2>3 DEF Entered, TypeOK, LedgerType
    <2>7. \A p \in Nodes :
             \/ /\ changing'[p] = changing[p] /\ changeTo'[p] = changeTo[p]
                /\ viewNumber'[p] = viewNumber[p]
             \/ changing'[p] => changeTo'[p] > viewNumber'[p]
        BY <1>1, <1>5, <2>2 DEF TypeOK, LedgerType, ChangeType
    <2>8. \A p \in Nodes : newView'[p] = newView[p] \/ newView'[p] \in sentNewViews'
        BY <1>1, <2>2 DEF TypeOK, LeaderType
    <2>9. \A other \in sentNewViews' \ sentNewViews : Announced(other, sentViewChanges')
        BY <2>2, <2>4
    <2>. QED
        BY <1>1, <1>3, <1>5, <2>2, <2>5, <2>6, <2>7, <2>8, <2>9, ViewStep
<1>6. CASE /\ inFlight' = inFlight \ {packet}
           /\ UNCHANGED <<viewNumber, changing, changeTo, leaderVars, changeMessageVars, rpcs>>
    BY <1>1, <1>3, <1>6, ViewStep DEF leaderVars, changeMessageVars
<1>. QED
    BY <1>4, <1>5, <1>6 DEF handleViewChange, changeMessageVars

\* handleNewView enters a view that its leader has announced.
LEMMA handleNewViewView ==
    ASSUME ViewInv, NEW n \in Nodes, NEW nv \in NewView, Known(nv, sentNewViews),
           handleNewView(n, nv), TypeOK',
           \A rpc \in rpcs' : rpc \in rpcs \/ RpcKnown(rpc, sentNewViews)
    PROVE  ViewInv'
<1>1. TypeOK /\ UNCHANGED <<changeTo, changeMessages, newView, changeMessageVars>>
    BY DEF ViewInv, handleNewView, viewChangeFrame, leaderVars
<1>2. CASE EnterAsBackup(n, nv)
    <2>1. /\ changing' = [changing EXCEPT ![n] = FALSE]
          /\ viewNumber' = [viewNumber EXCEPT ![n] = nv.viewNumber]
        BY <1>2 DEF EnterAsBackup, enterNewView
    <2>2. \A packet \in inFlight' : packet \in inFlight \/ PacketAsked(packet, sentViewChanges')
        BY <1>2, BroadcastKind DEF EnterAsBackup, PacketAsked
    <2>3. \A p \in Nodes :
             viewNumber'[p] = viewNumber[p] \/ Entered(viewNumber'[p], sentNewViews')
        BY <1>1, <2>1 DEF Entered, Known, TypeOK, LedgerType, changeMessageVars
    <2>4. \A p \in Nodes :
             \/ /\ changing'[p] = changing[p] /\ changeTo'[p] = changeTo[p]
                /\ viewNumber'[p] = viewNumber[p]
             \/ changing'[p] => changeTo'[p] > viewNumber'[p]
        BY <1>1, <2>1 DEF TypeOK, LedgerType, ChangeType
    <2>. QED
        BY <1>1, <2>2, <2>3, <2>4, ViewStep DEF changeMessageVars
<1>3. CASE UNCHANGED <<viewNumber, changing, inFlight>>
    BY <1>1, <1>3, SameViewStep DEF changeVars
<1>. QED
    BY <1>2, <1>3 DEF handleNewView

\* A heartbeat is handled.
LEMMA RpcHandledView ==
    ASSUME ViewInv, NEW rpc \in rpcs, RpcHandled(rpc)
    PROVE  ViewInv'
<1>1. TypeOK' /\ rpc \in Rpc /\ RpcKnown(rpc, sentNewViews)
    BY RpcHandledType DEF ViewInv, TypeOK, NewViewsKnown
<1>2. \A r \in rpcs' : r \in rpcs \/ RpcKnown(r, sentNewViews)
    <2>1. RpcKnown([rpc EXCEPT !.stage = "replied"], sentNewViews)
        BY <1>1 DEF RpcKnown, Rpc, RpcOf
    <2>. QED
        BY <2>1 DEF RpcHandled
<1>3. CASE rpc.kind = "NewView" /\ handleNewView(rpc.to, rpc.body)
    BY <1>1, <1>2, <1>3, RpcType, handleNewViewView DEF RpcKnown
<1>4. CASE rpc.kind = "PrePrepare" /\ handlePrePrepare(rpc.to, rpc.body, {})
    <2>1. \A packet \in inFlight' : packet \in inFlight \/ packet.kind # "ViewChange"
        BY <1>1, <1>4, RpcType, NoViewChangeSent
    <2>. QED
        BY <1>1, <1>2, <1>4, <2>1, SameViewStep
            DEF handlePrePrepare, normalFrame, leaderVars, changeVars, changeMessageVars
<1>5. CASE rpc.kind = "CheckpointProof" /\ handleCheckpointProof(rpc.to, rpc.body)
    BY <1>1, <1>2, <1>5, SameViewStep DEF handleCheckpointProof, checkpointFrame, leaderVars
<1>. QED
    BY <1>3, <1>4, <1>5 DEF RpcHandled

-----------------------------------------------------------------------------
\* The invariant holds of a cluster that has just started.
LEMMA ViewInit == Init => ViewInv
BY InitType DEF Init, ViewInv, NewViewsAnnounced, NewViewsKnown, Known, ViewsEntered, Entered,
    MessagesKept, LastOfPeers, PacketsAsked, ChangesForward

\* Every step preserves the invariant.
LEMMA ViewNext == ViewInv /\ [Next]_vars => ViewInv'
<1>. SUFFICES ASSUME ViewInv, [Next]_vars
              PROVE  ViewInv'
    OBVIOUS
<1>1. TypeOK'
    BY TypeStep DEF ViewInv
<1>2. CASE UNCHANGED vars
    BY <1>1, <1>2, SameViewStep DEF vars, ledgerVars, leaderVars
<1>. QED
    BY <1>1, <1>2, ProposalView, VoteView, SendHeartbeatView, TimeoutView,
        handleViewChangeView, RpcHandledView, RpcMovesView
        DEF Next

\* The invariant holds in every behaviour.
LEMMA ViewInvariant == Spec => []ViewInv
BY ViewInit, ViewNext, PTL DEF Spec

\* No node is in a view but the first unless the leader of that view has announced
\* it, on the request of 2f other nodes.
THEOREM ViewCertificateHolds == Spec => []ViewCertificate
<1>1. ViewInv => ViewCertificate
    BY DEF ViewInv, NewViewsAnnounced, Announced, Asked, ViewsEntered, Entered, ViewCertificate
<1>. QED
    BY <1>1, ViewInvariant, PTL

-----------------------------------------------------------------------------
\* checkpointed() never moves the sequence number back.
LEMMA CheckpointedProgress ==
    ASSUME TypeOK, NEW n \in Nodes, NEW checkpoint, checkpoint.number \in SlotIds,
           NEW pending, NEW queue, Checkpointed(n, checkpoint, pending, queue)
    PROVE  \A p \in Nodes : sequenceNumber[p] <= sequenceNumber'[p]
<1>1. /\ sequenceNumber \in [Nodes -> 1..MaxSeq] /\ checkpoint.number.seqNumber \in Int
      /\ \A p \in Nodes : sequenceNumber[p] \in Int
    BY SlotIdsType, BoundsAssumption DEF TypeOK, LedgerType
<1>2. CASE UNCHANGED sequenceNumber
    BY <1>1, <1>2
<1>3. CASE /\ IsBehind(n, checkpoint.number)
           /\ sequenceNumber' = [sequenceNumber EXCEPT ![n] = checkpoint.number.seqNumber]
    BY <1>1, <1>3 DEF IsBehind
<1>. QED
    BY <1>2, <1>3 DEF Checkpointed, CatchUpTo

\* Steps that enter no view never move a sequence number back.
LEMMA SameViewProgress ==
    ASSUME TypeOK,
           \/ \E n \in Nodes, r \in Requests : Propose(n, r)
           \/ \E packet \in inFlight :
                 \/ ClientRequest(packet) \/ PrePrepareReceived(packet) \/ handlePrepare(packet)
                 \/ handleCommit(packet) \/ handleCheckpoint(packet)
           \/ \E n \in Nodes : \/ handleRecvSnapshot(n) \/ SendHeartbeat(n) \/ Timeout(n)
                               \/ DebugDown(n) \/ DebugUp(n)
           \/ \E rpc \in rpcs :
                 \/ RpcArrives(rpc) \/ RpcReturns(rpc) \/ RpcTimesOut(rpc)
                 \/ rpc.kind = "PrePrepare" /\ handlePrePrepare(rpc.to, rpc.body, {})
                 \/ rpc.kind = "CheckpointProof" /\ handleCheckpointProof(rpc.to, rpc.body)
    PROVE  /\ UNCHANGED viewNumber
           /\ \A p \in Nodes : sequenceNumber[p] <= sequenceNumber'[p]
<1>1. \A p \in Nodes : sequenceNumber[p] \in Int
    BY BoundsAssumption DEF TypeOK, LedgerType
<1>2. ASSUME NEW packet \in inFlight, handleCommit(packet)
      PROVE  \A p \in Nodes : sequenceNumber[p] <= sequenceNumber'[p]
    <2>1. packet.to \in Nodes /\ packet.message.number.seqNumber \in Int
        <3>1. packet \in Packet /\ packet.kind = "Commit"
            BY <1>2 DEF TypeOK, handleCommit, Delivered
        <3>2. packet.to \in Nodes /\ packet.message.number \in SlotIds
            BY <3>1, PacketType DEF Commit
        <3>. QED
            BY <3>2, SlotIdsType
    <2>2. Larger(sequenceNumber[packet.to], packet.message.number.seqNumber)
            >= sequenceNumber[packet.to]
        BY <1>1, <2>1, LargerType
    <2>3. CASE UNCHANGED sequenceNumber
        BY <1>1, <2>3
    <2>4. CASE sequenceNumber' = [sequenceNumber EXCEPT ![packet.to] =
                  Larger(@, packet.message.number.seqNumber)]
        BY <1>1, <2>1, <2>2, <2>4 DEF TypeOK, LedgerType
    <2>. QED
        BY <1>2, <2>3, <2>4 DEF handleCommit
<1>3. ASSUME NEW n \in Nodes, NEW message, NEW queue, message.number \in SlotIds,
             handleCheckpointNoValidation(n, message, queue)
      PROVE  \A p \in Nodes : sequenceNumber[p] <= sequenceNumber'[p]
    BY <1>1, <1>3, CheckpointedProgress DEF handleCheckpointNoValidation
<1>4. ASSUME NEW packet \in inFlight, handleCheckpoint(packet)
      PROVE  \A p \in Nodes : sequenceNumber[p] <= sequenceNumber'[p]
    <2>1. packet.to \in Nodes /\ packet.message.number \in SlotIds
        BY <1>4, PacketType DEF TypeOK, Checkpoint, handleCheckpoint, Delivered
    <2>. QED
        BY <1>3, <1>4, <2>1 DEF handleCheckpoint
<1>5. ASSUME NEW n \in Nodes, handleRecvSnapshot(n)
      PROVE  \A p \in Nodes : sequenceNumber[p] <= sequenceNumber'[p]
    <2>1. Head(snapshots[n]) \in CheckpointProof
        BY <1>5 DEF TypeOK, KeyType, handleRecvSnapshot
    <2>2. Head(snapshots[n]).number \in SlotIds
        BY <2>1 DEF CheckpointProof
    <2>. QED
        BY <1>3, <1>5, <2>2 DEF handleRecvSnapshot
<1>6. ASSUME NEW rpc \in rpcs, rpc.kind = "CheckpointProof",
             handleCheckpointProof(rpc.to, rpc.body)
      PROVE  \A p \in Nodes : sequenceNumber[p] <= sequenceNumber'[p]
    <2>1. rpc.to \in Nodes /\ rpc.body.number \in SlotIds
        BY <1>6, RpcType DEF TypeOK, CheckpointProof
    <2>. QED
        BY <1>6, <2>1, CheckpointedProgress DEF handleCheckpointProof
<1>7. UNCHANGED viewNumber
    BY DEF Propose, ClientRequest, handleClientRequest, PrePrepareReceived, handlePrePrepare,
        handlePrepare, handleCommit, handleCheckpoint, handleRecvSnapshot, SendHeartbeat,
        Timeout, DebugDown, DebugUp, RpcArrives, RpcReturns, RpcTimesOut, handleCheckpointProof,
        debugFrame, ledgerVars, normalFrame, checkpointFrame, rpcFrame
<1>8. \/ UNCHANGED sequenceNumber
      \/ \E packet \in inFlight : handleCommit(packet) \/ handleCheckpoint(packet)
      \/ \E n \in Nodes : handleRecvSnapshot(n)
      \/ \E rpc \in rpcs :
            rpc.kind = "CheckpointProof" /\ handleCheckpointProof(rpc.to, rpc.body)
    BY DEF Propose, ClientRequest, handleClientRequest, PrePrepareReceived, handlePrePrepare,
        handlePrepare, SendHeartbeat, Timeout, DebugDown, DebugUp, RpcArrives, RpcReturns,
        RpcTimesOut, debugFrame, ledgerVars, normalFrame, rpcFrame
<1>. QED
    BY <1>1, <1>2, <1>4, <1>5, <1>6, <1>7, <1>8

\* What ProgressMonotonic allows a step to do to a node.
Progresses(n) ==
    \/ viewNumber[n] < viewNumber'[n]
    \/ changing[n] /\ ~changing'[n] /\ LeaderFor[viewNumber'[n]] = n
    \/ viewNumber[n] = viewNumber'[n] /\ sequenceNumber[n] <= sequenceNumber'[n]

\* A node that handles a view change enters a view only as its leader.
LEMMA handleViewChangeProgress ==
    ASSUME TypeOK, NEW packet \in inFlight, handleViewChange(packet)
    PROVE  \A p \in Nodes : Progresses(p)
<1>. DEFINE n == packet.to
            vc == packet.message
<1>1. n \in Nodes /\ vc \in ViewChange /\ \A p \in Nodes : sequenceNumber[p] \in Int
    <2>1. packet \in Packet /\ packet.kind = "ViewChange"
        BY DEF TypeOK, handleViewChange, Delivered
    <2>2. n \in Nodes /\ vc \in ViewChange
        BY <2>1, PacketType
    <2>. QED
        BY <2>2, BoundsAssumption DEF TypeOK, LedgerType
<1>2. CASE UNCHANGED <<viewNumber, sequenceNumber>>
    BY <1>1, <1>2 DEF Progresses
<1>3. CASE changing[n] /\ LeaderFor[vc.viewNumber] = n /\ enterNewView(n, vc.viewNumber)
    <2>1. changing'[n] = FALSE /\ viewNumber'[n] = vc.viewNumber
        BY <1>1, <1>3 DEF enterNewView, TypeOK, LedgerType, ChangeType
    <2>2. \A p \in Nodes \ {n} : /\ viewNumber'[p] = viewNumber[p]
                                 /\ sequenceNumber'[p] = sequenceNumber[p]
        BY <1>1, <1>3 DEF enterNewView, TypeOK, LedgerType
    <2>. QED
        BY <1>1, <1>3, <2>1, <2>2 DEF Progresses
<1>. QED
    BY <1>2, <1>3 DEF handleViewChange, LeadNewView, AnnounceView, Leads

\* A backup that accepts a NewView goes to a later view than its own.
LEMMA handleNewViewProgress ==
    ASSUME TypeOK, ChangesForward, NEW n \in Nodes, NEW nv \in NewView, handleNewView(n, nv)
    PROVE  \A p \in Nodes : Progresses(p)
<1>1. /\ \A p \in Nodes : /\ sequenceNumber[p] \in Int /\ viewNumber[p] \in Int
                          /\ changeTo[p] \in Int
      /\ nv.viewNumber \in Int
    BY BoundsAssumption DEF TypeOK, LedgerType, ChangeType, NewView
<1>2. CASE AcceptsNewView(n, nv) /\ enterNewView(n, nv.viewNumber)
    <2>1. nv.viewNumber > viewNumber[n]
        BY <1>1, <1>2 DEF AcceptsNewView, CurrentView, ChangesForward
    <2>2. /\ viewNumber'[n] = nv.viewNumber
          /\ \A p \in Nodes \ {n} : /\ viewNumber'[p] = viewNumber[p]
                                    /\ sequenceNumber'[p] = sequenceNumber[p]
        BY <1>2 DEF enterNewView, TypeOK, LedgerType
    <2>3. Progresses(n)
        BY <1>1, <2>1, <2>2 DEF Progresses
    <2>4. \A p \in Nodes \ {n} : Progresses(p)
        BY <1>1, <2>2 DEF Progresses
    <2>. QED
        BY <2>3, <2>4
<1>3. CASE UNCHANGED <<viewNumber, sequenceNumber>>
    BY <1>1, <1>3 DEF Progresses
<1>. QED
    BY <1>2, <1>3 DEF handleNewView, EnterAsBackup

\* Views only grow and a view's execution never moves back, whatever NewViews are
\* repeated or come late; but for a primary when its view change ends, in a view it leads.
THEOREM ProgressMonotonicHolds == Spec => ProgressMonotonic
<1>1. ASSUME ViewInv, [Next]_vars
      PROVE  \A n \in Nodes : Progresses(n)
    <2>1. TypeOK /\ ChangesForward /\ \A p \in Nodes : sequenceNumber[p] \in Int
        BY <1>1, BoundsAssumption DEF ViewInv, TypeOK, LedgerType
    <2>2. CASE /\ UNCHANGED viewNumber
               /\ \A p \in Nodes : sequenceNumber[p] <= sequenceNumber'[p]
        BY <2>2 DEF Progresses
    <2>3. CASE UNCHANGED vars
        BY <2>1, <2>2, <2>3 DEF vars, ledgerVars
    <2>4. ASSUME NEW rpc \in rpcs, RpcHandled(rpc)
          PROVE  \A n \in Nodes : Progresses(n)
        <3>1. CASE rpc.kind = "NewView" /\ handleNewView(rpc.to, rpc.body)
            BY <2>1, <3>1, RpcType, handleNewViewProgress DEF TypeOK
        <3>2. CASE \/ rpc.kind = "PrePrepare" /\ handlePrePrepare(rpc.to, rpc.body, {})
                   \/ rpc.kind = "CheckpointProof" /\ handleCheckpointProof(rpc.to, rpc.body)
            BY <2>1, <2>2, <3>2, SameViewProgress
        <3>. QED
            BY <2>4, <3>1, <3>2 DEF RpcHandled
    <2>. QED
        BY <1>1, <2>1, <2>2, <2>3, <2>4, SameViewProgress, handleViewChangeProgress DEF Next
<1>2. ASSUME ViewInv, [Next]_vars
      PROVE  [\A n \in Nodes :
                 \/ viewNumber[n] < viewNumber'[n]
                 \/ changing[n] /\ ~changing'[n] /\ LeaderFor[viewNumber'[n]] = n
                 \/ viewNumber[n] = viewNumber'[n] /\ sequenceNumber[n] <= sequenceNumber'[n]]_vars
    BY <1>1, <1>2 DEF Progresses
<1>. QED
    BY <1>2, ViewInvariant, PTL DEF Spec, ProgressMonotonic

-----------------------------------------------------------------------------
\* What QuietWhileChanging says of a step and a node.
Quiet(n) ==
    changing[n] /\ changing'[n] =>
        /\ \A m \in (sentPrepares' \cup sentCommits') \ (sentPrepares \cup sentCommits) :
              m.node # n
        /\ \A pp \in sentPrePrepares' \ sentPrePrepares : pp.signer # n
        /\ log'[n] # log[n] => lastCheckpoint'[n] # lastCheckpoint[n]

\* A step of one node that is not changing view, or no longer.
LEMMA OwnStepQuiet ==
    ASSUME NEW k \in Nodes, ~(changing[k] /\ changing'[k]),
           \A p \in Nodes \ {k} : log'[p] = log[p],
           \A m \in (sentPrepares' \cup sentCommits') \ (sentPrepares \cup sentCommits) :
               m.node = k,
           \A pp \in sentPrePrepares' \ sentPrePrepares : pp.signer = k
    PROVE  \A n \in Nodes : Quiet(n)
<1>. SUFFICES ASSUME NEW n \in Nodes
              PROVE  Quiet(n)
    OBVIOUS
<1>1. CASE n = k
    BY <1>1 DEF Quiet
<1>2. CASE n # k
    BY <1>2 DEF Quiet
<1>. QED
    BY <1>1, <1>2

\* A step that sends nothing of the normal case and leaves the logs alone.
LEMMA SilentStepQuiet ==
    ASSUME UNCHANGED <<log, sentPrepares, sentCommits, sentPrePrepares>>
    PROVE  \A n \in Nodes : Quiet(n)
BY DEF Quiet

\* checkpointed() that clears a slot has moved the checkpoint: no vote is kept for
\* a number up to the last one.
LEMMA CheckpointedQuiet ==
    ASSUME TypeOK, NEW n \in Nodes, NEW checkpoint, checkpoint.number \in SlotIds,
           NEW pending, NEW queue, Checkpointed(n, checkpoint, pending, queue),
           \/ checkpoint.number # lastCheckpoint[n].number
           \/ \A id \in SlotIds :
                 pending[id].proof # {} => Before(lastCheckpoint[n].number, id)
    PROVE  \A p \in Nodes : log'[p] # log[p] => lastCheckpoint'[p] # lastCheckpoint[p]
<1>. DEFINE flushed == Flushed(pending, checkpoint.number)
            cleared == [id \in SlotIds |-> IF id \in flushed THEN EmptySlot ELSE log[n][id]]
<1>1. CASE UNCHANGED log
    BY <1>1
<1>2. CASE /\ lastCheckpoint' = [lastCheckpoint EXCEPT ![n] = checkpoint]
           /\ log' = [log EXCEPT ![n] = cleared]
    <2>1. \A p \in Nodes \ {n} : log'[p] = log[p]
        BY <1>2 DEF TypeOK, LedgerType
    <2>2. log'[n] = cleared /\ lastCheckpoint'[n] = checkpoint
        BY <1>2 DEF TypeOK, LedgerType, CheckpointType
    <2>3. CASE checkpoint.number # lastCheckpoint[n].number
        BY <2>1, <2>2, <2>3
    <2>4. CASE \A id \in SlotIds :
                  pending[id].proof # {} => Before(lastCheckpoint[n].number, id)
        <3>1. checkpoint = lastCheckpoint[n] => flushed = {}
            <4>1. \A a, b \in SlotIds : ~(BeforeOrEqual(a, b) /\ Before(b, a))
                BY SlotIdsType DEF Before, BeforeOrEqual
            <4>. QED
                BY <2>4, <4>1 DEF Flushed
        <3>2. flushed = {} => cleared = log[n]
            <4>1. log[n] = [id \in SlotIds |-> log[n][id]]
                BY DEF TypeOK, LedgerType
            <4>. QED
                BY <4>1
        <3>. QED
            BY <2>1, <2>2, <3>1, <3>2
    <2>. QED
        BY <2>3, <2>4
<1>. QED
    BY <1>1, <1>2 DEF Checkpointed

\* The same of a vote: one for the last checkpoint is not counted.
LEMMA VoteQuiet ==
    ASSUME TypeOK, NEW n \in Nodes, NEW message, message.number \in SlotIds, NEW queue,
           handleCheckpointNoValidation(n, message, queue)
    PROVE  \A p \in Nodes : log'[p] # log[p] => lastCheckpoint'[p] # lastCheckpoint[p]
<1>1. CASE UNCHANGED log
    BY <1>1
<1>2. CASE ~IsStable(n, message.number, pendingCheckpoints[n])
    <2>1. message.number # lastCheckpoint[n].number
        BY <1>2, SlotIdsType DEF IsStable, BeforeOrEqual
    <2>. DEFINE pending == Voted(pendingCheckpoints[n], message)
                checkpoint == [number |-> message.number,
                               snapshot |-> pending[message.number].snapshot]
    <2>2. checkpoint.number = message.number
        OBVIOUS
    <2>3. UNCHANGED log \/ Checkpointed(n, checkpoint, pending, queue)
        BY <1>2 DEF handleCheckpointNoValidation
    <2>. HIDE DEF checkpoint, pending
    <2>. QED
        BY <2>1, <2>2, <2>3, CheckpointedQuiet
<1>. QED
    BY <1>1, <1>2 DEF handleCheckpointNoValidation

\* The handlers that change a checkpoint send nothing of the normal case.
LEMMA CheckpointQuiet ==
    ASSUME TypeOK, PendingAfterStable,
           \/ \E packet \in inFlight : handleCheckpoint(packet)
           \/ \E n \in Nodes : handleRecvSnapshot(n)
           \/ \E rpc \in rpcs :
                 rpc.kind = "CheckpointProof" /\ handleCheckpointProof(rpc.to, rpc.body)
    PROVE  \A n \in Nodes : Quiet(n)
<1>1. UNCHANGED <<sentPrepares, sentCommits, sentPrePrepares>>
    BY DEF handleCheckpoint, handleRecvSnapshot, handleCheckpointProof, checkpointFrame,
        normalMessages
<1>2. ASSUME NEW packet \in inFlight, handleCheckpoint(packet)
      PROVE  \A p \in Nodes : log'[p] # log[p] => lastCheckpoint'[p] # lastCheckpoint[p]
    <2>1. packet \in Packet /\ packet.kind = "Checkpoint"
        BY <1>2 DEF TypeOK, handleCheckpoint, Delivered
    <2>2. packet.to \in Nodes /\ packet.message.number \in SlotIds
        BY <2>1, PacketType DEF Checkpoint
    <2>. QED
        BY <1>2, <2>2, VoteQuiet DEF handleCheckpoint
<1>3. ASSUME NEW n \in Nodes, handleRecvSnapshot(n)
      PROVE  \A p \in Nodes : log'[p] # log[p] => lastCheckpoint'[p] # lastCheckpoint[p]
    <2>1. Head(snapshots[n]) \in CheckpointProof
        BY <1>3 DEF TypeOK, KeyType, handleRecvSnapshot
    <2>2. Head(snapshots[n]).number \in SlotIds
        BY <2>1 DEF CheckpointProof
    <2>. QED
        BY <1>3, <2>2, VoteQuiet DEF handleRecvSnapshot
<1>4. ASSUME NEW rpc \in rpcs, rpc.kind = "CheckpointProof",
             handleCheckpointProof(rpc.to, rpc.body)
      PROVE  \A p \in Nodes : log'[p] # log[p] => lastCheckpoint'[p] # lastCheckpoint[p]
    <2>1. rpc.to \in Nodes /\ rpc.body.number \in SlotIds
        BY <1>4, RpcType DEF TypeOK, CheckpointProof
    <2>2. \A id \in SlotIds : pendingCheckpoints[rpc.to][id].proof # {} =>
              Before(lastCheckpoint[rpc.to].number, id)
        BY <2>1 DEF PendingAfterStable
    <2>3. Checkpointed(rpc.to, rpc.body, pendingCheckpoints[rpc.to], snapshots[rpc.to])
        BY <1>4 DEF handleCheckpointProof
    <2>. QED
        BY <2>1, <2>2, <2>3, CheckpointedQuiet
<1>. QED
    BY <1>1, <1>2, <1>3, <1>4 DEF Quiet

\* A node handles client requests, pre-prepares, prepares and commits only while it
\* takes part.
LEMMA NormalQuiet ==
    ASSUME TypeOK,
           \/ \E n \in Nodes, r \in Requests : \E done : handleClientRequest(n, r, done)
           \/ \E n \in Nodes, pp \in PrePrepare : \E done : handlePrePrepare(n, pp, done)
           \/ \E packet \in inFlight : handlePrepare(packet) \/ handleCommit(packet)
    PROVE  \A n \in Nodes : Quiet(n)
<1>1. ASSUME NEW n \in Nodes, NEW r \in Requests, NEW done, handleClientRequest(n, r, done)
      PROVE  \A p \in Nodes : Quiet(p)
    <2>1. ~changing[n] /\ UNCHANGED <<sentPrepares, sentCommits>>
        BY <1>1 DEF handleClientRequest, TakesPart
    <2>2. /\ \A p \in Nodes \ {n} : log'[p] = log[p]
          /\ \A pp \in sentPrePrepares' \ sentPrePrepares : pp.signer = n
        BY <1>1 DEF handleClientRequest, PrimaryProposes, BackupForwards, TypeOK, LedgerType
    <2>. QED
        BY <2>1, <2>2, OwnStepQuiet
<1>2. ASSUME NEW n \in Nodes, NEW pp \in PrePrepare, NEW done, handlePrePrepare(n, pp, done)
      PROVE  \A p \in Nodes : Quiet(p)
    <2>1. CASE UNCHANGED <<log, sentPrepares>>
        BY <1>2, <2>1, SilentStepQuiet DEF handlePrePrepare
    <2>2. CASE /\ HearsHeartbeat(n, pp)
               /\ log' = [log EXCEPT ![n][pp.number] = AcceptedSlot(n, @, pp.request, pp.digest)]
               /\ sentPrepares' = sentPrepares \cup {PrepareFor(n, pp)}
        <3>1. ~changing[n] /\ UNCHANGED <<sentPrePrepares, sentCommits>>
            BY <1>2, <2>2 DEF handlePrePrepare, HearsHeartbeat, TakesPart
        <3>2. /\ \A p \in Nodes \ {n} : log'[p] = log[p]
              /\ PrepareFor(n, pp).node = n
            BY <2>2 DEF TypeOK, LedgerType, PrepareFor
        <3>. QED
            BY <2>2, <3>1, <3>2, OwnStepQuiet
    <2>. QED
        BY <1>2, <2>1, <2>2 DEF handlePrePrepare
<1>3. ASSUME NEW packet \in inFlight, handlePrepare(packet)
      PROVE  \A p \in Nodes : Quiet(p)
    <2>. DEFINE n == packet.to
                id == packet.message.number
    <2>1. n \in Nodes /\ ~changing[n] /\ UNCHANGED <<sentPrePrepares, sentPrepares>>
        BY <1>3, PacketType DEF TypeOK, handlePrepare, TakesPart
    <2>2. \E slot : log' = [log EXCEPT ![n][id] = slot]
        BY <1>3 DEF handlePrepare
    <2>3. \A p \in Nodes \ {n} : log'[p] = log[p]
        BY <2>2 DEF TypeOK, LedgerType
    <2>4. \A c \in sentCommits' \ sentCommits : c.node = n
        BY <1>3, SMTT(30) DEF handlePrepare
    <2>. HIDE DEF n, id
    <2>. QED
        BY <2>1, <2>3, <2>4, OwnStepQuiet
<1>4. ASSUME NEW packet \in inFlight, handleCommit(packet)
      PROVE  \A p \in Nodes : Quiet(p)
    <2>. DEFINE n == packet.to
                id == packet.message.number
    <2>1. /\ n \in Nodes /\ ~changing[n]
          /\ UNCHANGED <<sentPrePrepares, sentPrepares, sentCommits>>
        BY <1>4, PacketType DEF TypeOK, handleCommit, TakesPart, normalMessages
    <2>2. \E slot : log' = [log EXCEPT ![n][id] = slot]
        BY <1>4 DEF handleCommit
    <2>3. \A p \in Nodes \ {n} : log'[p] = log[p]
        BY <2>2 DEF TypeOK, LedgerType
    <2>. HIDE DEF n, id
    <2>. QED
        BY <2>1, <2>3, OwnStepQuiet
<1>. QED
    BY <1>1, <1>2, <1>3, <1>4

\* Who leads a view, or enters it as a backup, is no longer changing view.
LEMMA EnteringQuiet ==
    ASSUME TypeOK,
           \/ \E packet \in inFlight : handleViewChange(packet)
           \/ \E n \in Nodes, nv \in NewView : handleNewView(n, nv)
    PROVE  \A n \in Nodes : Quiet(n)
<1>1. ASSUME NEW packet \in inFlight, handleViewChange(packet)
      PROVE  \A p \in Nodes : Quiet(p)
    <2>1. UNCHANGED <<sentPrePrepares, sentPrepares, sentCommits>>
        BY <1>1 DEF handleViewChange, viewChangeFrame
    <2>2. CASE UNCHANGED log
        BY <2>1, <2>2, SilentStepQuiet
    <2>3. ASSUME NEW view, NEW pps, NEW maxS, AnnounceView(packet.to, view, pps, maxS)
          PROVE  \A p \in Nodes : Quiet(p)
        <3>1. packet.to \in Nodes
            BY PacketType DEF TypeOK
        <3>2. ~changing'[packet.to] /\ \A p \in Nodes \ {packet.to} : log'[p] = log[p]
            BY <2>3, <3>1 DEF AnnounceView, enterNewView, TypeOK, ChangeType, LedgerType
        <3>. QED
            BY <2>1, <3>1, <3>2, OwnStepQuiet
    <2>. QED
        BY <1>1, <2>2, <2>3 DEF handleViewChange, LeadNewView
<1>2. ASSUME NEW n \in Nodes, NEW nv \in NewView, handleNewView(n, nv)
      PROVE  \A p \in Nodes : Quiet(p)
    <2>1. UNCHANGED <<sentPrePrepares, sentCommits>>
        BY <1>2 DEF handleNewView, viewChangeFrame
    <2>2. CASE UNCHANGED <<log, sentPrepares>>
        BY <2>1, <2>2, SilentStepQuiet
    <2>3. CASE EnterAsBackup(n, nv)
        <3>1. ~changing'[n] /\ \A p \in Nodes \ {n} : log'[p] = log[p]
            BY <2>3 DEF EnterAsBackup, enterNewView, TypeOK, ChangeType, LedgerType
        <3>2. \A m \in sentPrepares' \ sentPrepares : m.node = n
            BY <2>3 DEF EnterAsBackup, PrepareFor
        <3>. QED
            BY <2>1, <3>1, <3>2, OwnStepQuiet
    <2>. QED
        BY <1>2, <2>2, <2>3 DEF handleNewView
<1>. QED
    BY <1>1, <1>2

\* No step is loud.
LEMMA EveryStepQuiet ==
    ASSUME TypeOK, PendingAfterStable, [Next]_vars
    PROVE  \A n \in Nodes : Quiet(n)
<1>1. ASSUME NEW packet \in inFlight, ClientRequest(packet) \/ PrePrepareReceived(packet)
      PROVE  \A n \in Nodes : Quiet(n)
    <2>1. packet \in Packet
        BY DEF TypeOK
    <2>2. /\ packet.to \in Nodes
          /\ packet.kind = "ClientRequest" => packet.message.request \in Requests
          /\ packet.kind = "PrePrepare" => packet.message \in PrePrepare
        BY <2>1, PacketType DEF ForwardedRequest
    <2>. QED
        BY <1>1, <2>2, NormalQuiet DEF ClientRequest, PrePrepareReceived, Delivered
<1>2. ASSUME NEW n \in Nodes, NEW r \in Requests, Propose(n, r)
      PROVE  \A p \in Nodes : Quiet(p)
    BY <1>2, NormalQuiet DEF Propose
<1>3. ASSUME NEW rpc \in rpcs, RpcHandled(rpc)
      PROVE  \A n \in Nodes : Quiet(n)
    <2>1. rpc \in Rpc
        BY DEF TypeOK
    <2>. QED
        BY <1>3, <2>1, RpcType, NormalQuiet, CheckpointQuiet, EnteringQuiet DEF RpcHandled
<1>4. ASSUME \/ \E n \in Nodes : SendHeartbeat(n) \/ Timeout(n) \/ DebugDown(n) \/ DebugUp(n)
             \/ \E rpc \in rpcs : RpcArrives(rpc) \/ RpcReturns(rpc) \/ RpcTimesOut(rpc)
             \/ UNCHANGED vars
      PROVE  \A n \in Nodes : Quiet(n)
    <2>1. UNCHANGED <<log, sentPrepares, sentCommits, sentPrePrepares>>
        BY <1>4 DEF SendHeartbeat, Timeout, DebugDown, DebugUp, debugFrame, RpcArrives,
            RpcReturns, RpcTimesOut, rpcFrame, vars, ledgerVars, normalMessages
    <2>. QED
        BY <2>1, SilentStepQuiet
<1>. QED
    BY <1>1, <1>2, <1>3, <1>4, NormalQuiet, CheckpointQuiet, EnteringQuiet DEF Next

\* A node that changes view proposes, prepares, commits and executes nothing, for
\* as long as the change lasts.
THEOREM QuietWhileChangingHolds == Spec => QuietWhileChanging
<1>1. ASSUME TypeOK, PendingAfterStable, [Next]_vars
      PROVE  [\A n \in Nodes : changing[n] /\ changing'[n] =>
                 /\ \A m \in (sentPrepares' \cup sentCommits') \ (sentPrepares \cup sentCommits) :
                       m.node # n
                 /\ \A pp \in sentPrePrepares' \ sentPrePrepares : pp.signer # n
                 /\ log'[n] # log[n] => lastCheckpoint'[n] # lastCheckpoint[n]]_vars
    BY <1>1, EveryStepQuiet DEF Quiet
<1>. QED
    BY <1>1, TypeCorrect, PendingAfterStableHolds, PTL DEF Spec, QuietWhileChanging

\* A node asks for a view only while it is up.
THEOREM DownAsksForNoViewHolds == Spec => DownAsksForNoView
<1>1. ASSUME [Next]_vars
      PROVE  [\A vc \in sentViewChanges' \ sentViewChanges : ~down[vc.node]]_vars
    <2>1. CASE UNCHANGED sentViewChanges
        BY <2>1
    <2>2. ASSUME NEW n, NEW view, NEW done, startViewChange(n, view, done)
          PROVE  \A vc \in sentViewChanges' \ sentViewChanges : ~down[vc.node]
        BY <2>2 DEF startViewChange, MayStartViewChange
    <2>3. ASSUME NEW packet \in inFlight, handleViewChange(packet)
          PROVE  \A vc \in sentViewChanges' \ sentViewChanges : ~down[vc.node]
        BY <2>1, <2>2, <2>3 DEF handleViewChange, changeMessageVars
    <2>4. ASSUME NEW n \in Nodes, Timeout(n)
          PROVE  \A vc \in sentViewChanges' \ sentViewChanges : ~down[vc.node]
        BY <2>1, <2>2, <2>4 DEF Timeout
    <2>5. ASSUME NEW packet \in inFlight,
                 \/ ClientRequest(packet) \/ PrePrepareReceived(packet) \/ handlePrepare(packet)
                 \/ handleCommit(packet) \/ handleCheckpoint(packet)
          PROVE  UNCHANGED sentViewChanges
        BY <2>5 DEF ClientRequest, handleClientRequest, PrePrepareReceived, handlePrePrepare,
            handlePrepare, handleCommit, handleCheckpoint, normalFrame, checkpointFrame,
            changeMessageVars
    <2>6. ASSUME NEW n \in Nodes,
                 \/ \E r \in Requests : Propose(n, r)
                 \/ handleRecvSnapshot(n) \/ SendHeartbeat(n) \/ DebugDown(n) \/ DebugUp(n)
          PROVE  UNCHANGED sentViewChanges
        BY <2>6 DEF Propose, handleClientRequest, handleRecvSnapshot, SendHeartbeat, DebugDown,
            DebugUp, debugFrame, normalFrame, checkpointFrame, changeMessageVars
    <2>7. ASSUME NEW rpc \in rpcs,
                 RpcArrives(rpc) \/ RpcHandled(rpc) \/ RpcReturns(rpc) \/ RpcTimesOut(rpc)
          PROVE  UNCHANGED sentViewChanges
        BY <2>7 DEF RpcArrives, RpcHandled, RpcReturns, RpcTimesOut, rpcFrame, handleNewView,
            handlePrePrepare, handleCheckpointProof, normalFrame, checkpointFrame,
            changeMessageVars
    <2>. QED
        BY <1>1, <2>1, <2>3, <2>4, <2>5, <2>6, <2>7 DEF Next, vars, changeMessageVars
<1>. QED
    BY <1>1, PTL DEF Spec, DownAsksForNoView

-----------------------------------------------------------------------------
(* What a new primary proposes again. *)

\* The proof of a prepared request holds what was proposed, and 2f nodes prepared it.
ProofBacked(number, digest, proposed, prepares) ==
    /\ ProposedAs(number, digest, proposed)
    /\ Cardinality(Senders(prepares, number)) >= PrepareQuorum

ProofsBacked ==
    \A vc \in sentViewChanges : \A proof \in vc.proofs :
        ProofBacked(proof.number, proof.digest, Proposed, sentPrepares)

Reproposed(pp, proposed, prepares) ==
    pp.digest # NoOp => \E v \in 0..MaxView :
        ProofBacked(SlotId(v, pp.number.seqNumber), pp.digest, proposed, prepares)

NewViewsBacked ==
    \A nv \in sentNewViews : \A pp \in nv.prePrepares : Reproposed(pp, Proposed, sentPrepares)

ReproposalInv == CertificateInv /\ ViewInv /\ ProofsBacked /\ NewViewsBacked

\* A proof stays backed as messages are sent.
LEMMA ProofBackedGrows ==
    ASSUME NEW number, NEW digest, NEW P, NEW P2, NEW R, NEW R2, P \subseteq P2, R \subseteq R2,
           \A m \in R2 : m.node \in Nodes, ProofBacked(number, digest, P, R)
    PROVE  ProofBacked(number, digest, P2, R2)
<1>1. Senders(R, number) \subseteq Senders(R2, number)
    BY SendersGrow
<1>2. /\ Cardinality(Senders(R, number)) <= Cardinality(Senders(R2, number))
      /\ Cardinality(Senders(R, number)) \in Nat /\ Cardinality(Senders(R2, number)) \in Nat
    BY <1>1, SendersFinite, FS_CardinalityType
<1>3. Cardinality(Senders(R2, number)) >= PrepareQuorum
    BY <1>2, QuorumType DEF ProofBacked
<1>. QED
    BY <1>3 DEF ProofBacked, ProposedAs

\* Nothing takes back what was proposed or prepared, and only two steps send a view
\* change or a NewView.
LEMMA SentGrows ==
    ASSUME [Next]_vars
    PROVE  /\ sentPrePrepares \subseteq sentPrePrepares' /\ sentPrepares \subseteq sentPrepares'
           /\ \/ UNCHANGED changeMessageVars
              \/ \E packet \in inFlight : handleViewChange(packet)
              \/ \E n \in Nodes : Timeout(n)
<1>1. ASSUME NEW packet \in inFlight,
             \/ ClientRequest(packet) \/ PrePrepareReceived(packet) \/ handlePrepare(packet)
             \/ handleCommit(packet) \/ handleCheckpoint(packet)
      PROVE  /\ sentPrePrepares \subseteq sentPrePrepares' /\ sentPrepares \subseteq sentPrepares'
             /\ UNCHANGED changeMessageVars
    BY <1>1 DEF ClientRequest, handleClientRequest, PrimaryProposes, BackupForwards,
        PrePrepareReceived, handlePrePrepare, handlePrepare, handleCommit, handleCheckpoint,
        normalFrame, checkpointFrame, normalMessages, changeMessageVars
<1>2. ASSUME NEW n \in Nodes,
             \/ \E r \in Requests : Propose(n, r)
             \/ handleRecvSnapshot(n) \/ SendHeartbeat(n) \/ DebugDown(n) \/ DebugUp(n)
      PROVE  /\ sentPrePrepares \subseteq sentPrePrepares' /\ sentPrepares \subseteq sentPrepares'
             /\ UNCHANGED changeMessageVars
    BY <1>2 DEF Propose, handleClientRequest, PrimaryProposes, BackupForwards,
        handleRecvSnapshot, SendHeartbeat, DebugDown, DebugUp, debugFrame, normalFrame,
        checkpointFrame, normalMessages, changeMessageVars
<1>3. ASSUME NEW rpc \in rpcs,
             RpcArrives(rpc) \/ RpcHandled(rpc) \/ RpcReturns(rpc) \/ RpcTimesOut(rpc)
      PROVE  /\ sentPrePrepares \subseteq sentPrePrepares' /\ sentPrepares \subseteq sentPrepares'
             /\ UNCHANGED changeMessageVars
    BY <1>3 DEF RpcArrives, RpcHandled, RpcReturns, RpcTimesOut, rpcFrame, handleNewView,
        EnterAsBackup, handlePrePrepare, handleCheckpointProof, normalFrame, checkpointFrame,
        viewChangeFrame, normalMessages, changeMessageVars
<1>4. ASSUME \/ \E packet \in inFlight : handleViewChange(packet)
             \/ \E n \in Nodes : Timeout(n)
             \/ UNCHANGED vars
      PROVE  UNCHANGED <<sentPrePrepares, sentPrepares>>
    BY <1>4 DEF handleViewChange, viewChangeFrame, Timeout, normalMessages, vars
<1>5. UNCHANGED vars => UNCHANGED changeMessageVars
    BY DEF vars
<1>. QED
    BY <1>1, <1>2, <1>3, <1>4, <1>5 DEF Next

\* A view change carries proofs of what the node has prepared.
LEMMA PreparedProofsBacked ==
    ASSUME CertificateInv, NEW n \in Nodes
    PROVE  \A proof \in PreparedProofs(n) :
              ProofBacked(proof.number, proof.digest, Proposed, sentPrepares)
<1>1. ASSUME NEW id \in SlotIds, IsPrepared(log[n][id])
      PROVE  ProofBacked(id, log[n][id].requestDigest, Proposed, sentPrepares)
    <2>1. log[n][id] \in Slot /\ Backed(id, log[n][id], Proposed, sentPrepares, sentCommits)
        BY SlotOfType DEF CertificateInv, LogBacked
    <2>2. \A m \in sentPrepares : m.node \in Nodes
        BY DEF CertificateInv, TypeOK, SentType, Prepare
    <2>. QED
        BY <1>1, <2>1, <2>2, PreparedSlot DEF ProofBacked
<1>. QED
    BY <1>1 DEF PreparedProofs

\* Of each number the new primary proposes the digest of a proof it was sent, or a hole.
LEMMA NewPrePreparesBacked ==
    ASSUME NEW n, NEW view, NEW minS \in Int, NEW maxS \in Int, NEW messages, NEW chosen,
           \A vc \in messages : \A proof \in vc.proofs :
               /\ proof.number \in SlotIds
               /\ ProofBacked(proof.number, proof.digest, Proposed, sentPrepares),
           \A s \in PreparedNumbers(messages) :
               chosen[s] \in HighestProofs(UNION {vc.proofs : vc \in messages}, s)
    PROVE  \A pp \in NewPrePrepares(n, view, minS, maxS, UNION {vc.proofs : vc \in messages},
                                    chosen) :
              Reproposed(pp, Proposed, sentPrepares)
<1>. DEFINE proofs == UNION {vc.proofs : vc \in messages}
<1>1. ASSUME NEW s, HighestProofs(proofs, s) # {}
      PROVE  \E v \in 0..MaxView :
                ProofBacked(SlotId(v, s), chosen[s].digest, Proposed, sentPrepares)
    <2>1. s \in PreparedNumbers(messages)
        BY <1>1 DEF HighestProofs, PreparedNumbers
    <2>2. chosen[s] \in proofs /\ chosen[s].number.seqNumber = s
        BY <2>1 DEF HighestProofs
    <2>3. /\ chosen[s].number \in SlotIds
          /\ ProofBacked(chosen[s].number, chosen[s].digest, Proposed, sentPrepares)
        BY <2>2
    <2>4. /\ chosen[s].number.viewNumber \in 0..MaxView
          /\ chosen[s].number = SlotId(chosen[s].number.viewNumber, s)
        BY <2>2, <2>3 DEF SlotIds, SlotId
    <2>. QED
        BY <2>3, <2>4
<1>2. ASSUME NEW pp \in NewPrePrepares(n, view, minS, maxS, proofs, chosen)
      PROVE  Reproposed(pp, Proposed, sentPrepares)
    <2>1. PICK s \in minS..maxS :
             /\ pp.number.seqNumber = s
             /\ pp.digest = IF HighestProofs(proofs, s) = {} THEN NoOp ELSE chosen[s].digest
        <3>. HIDE DEF proofs
        <3>. QED
            BY <1>2 DEF NewPrePrepares, SlotId
    <2>. HIDE DEF proofs
    <2>. QED
        BY <1>1, <2>1 DEF Reproposed
<1>. QED
    BY <1>2

\* What a view change says it has prepared stays proposed and prepared, and so does
\* what a new primary takes from it.
LEMMA ReproposalNext == ReproposalInv /\ [Next]_vars => ReproposalInv'
<1>. SUFFICES ASSUME ReproposalInv, [Next]_vars
              PROVE  ReproposalInv'
    OBVIOUS
<1>1. CertificateInv /\ CertificateInv' /\ ViewInv /\ ViewInv' /\ TypeOK /\ TypeOK'
    BY CertificateNext, ViewNext DEF ReproposalInv, ViewInv
<1>2. ASSUME \A vc \in sentViewChanges' \ sentViewChanges : \A proof \in vc.proofs :
                 ProofBacked(proof.number, proof.digest, Proposed, sentPrepares),
             \A nv \in sentNewViews' \ sentNewViews : \A pp \in nv.prePrepares :
                 Reproposed(pp, Proposed, sentPrepares),
             sentNewViews \subseteq sentNewViews'
      PROVE  ReproposalInv'
    <2>1. Proposed \subseteq Proposed' /\ sentPrepares \subseteq sentPrepares'
        BY <1>2, SentGrows DEF Proposed
    <2>2. \A m \in sentPrepares' : m.node \in Nodes
        BY <1>1 DEF TypeOK, SentType, Prepare
    <2>3. \A number, digest : ProofBacked(number, digest, Proposed, sentPrepares) =>
              ProofBacked(number, digest, Proposed', sentPrepares')
        BY <2>1, <2>2, ProofBackedGrows
    <2>4. ProofsBacked'
        BY <1>2, <2>3 DEF ProofsBacked, ReproposalInv
    <2>5. NewViewsBacked'
        BY <1>2, <2>3 DEF NewViewsBacked, Reproposed, ReproposalInv
    <2>. QED
        BY <1>1, <2>4, <2>5 DEF ReproposalInv
<1>3. CASE UNCHANGED changeMessageVars
    BY <1>2, <1>3 DEF changeMessageVars
<1>4. ASSUME NEW n \in Nodes, NEW view, NEW done, startViewChange(n, view, done),
             UNCHANGED sentNewViews
      PROVE  ReproposalInv'
    <2>1. \A vc \in sentViewChanges' \ sentViewChanges : vc.proofs = PreparedProofs(n)
        BY <1>4 DEF startViewChange
    <2>. QED
        BY <1>1, <1>2, <1>4, <2>1, PreparedProofsBacked
<1>5. ASSUME NEW n \in Nodes, Timeout(n)
      PROVE  ReproposalInv'
    BY <1>3, <1>4, <1>5 DEF Timeout, changeMessageVars
<1>6. ASSUME NEW packet \in inFlight, handleViewChange(packet)
      PROVE  ReproposalInv'
    <2>. DEFINE n == packet.to
                vc == packet.message
                messages == Received(n, vc)
    <2>1. n \in Nodes
        BY <1>1, PacketType DEF TypeOK
    <2>2. CASE LeadNewView(n, vc.viewNumber, messages) /\ UNCHANGED sentViewChanges
        <3>. DEFINE proofs == UNION {m.proofs : m \in messages}
        <3>0. PICK minS \in 0..MaxSeq, maxS \in 0..MaxSeq : \E chosen :
                 /\ \A s \in PreparedNumbers(messages) : chosen[s] \in HighestProofs(proofs, s)
                 /\ AnnounceView(n, vc.viewNumber,
                        NewPrePrepares(n, vc.viewNumber, minS, maxS, proofs, chosen), maxS)
            BY <2>2 DEF LeadNewView
        <3>1. PICK chosen :
                 /\ \A s \in PreparedNumbers(messages) : chosen[s] \in HighestProofs(proofs, s)
                 /\ AnnounceView(n, vc.viewNumber,
                        NewPrePrepares(n, vc.viewNumber, minS, maxS, proofs, chosen), maxS)
            BY <3>0
        <3>2. messages \subseteq sentViewChanges
            <4>1. vc \in sentViewChanges
                BY <1>1, <1>6 DEF ViewInv, PacketsAsked, PacketAsked, handleViewChange, Delivered
            <4>2. changeMessages[n] \subseteq sentViewChanges
                BY <1>1, <2>1 DEF ViewInv, MessagesKept, LastOfPeers
            <4>. QED
                BY <4>1, <4>2 DEF Received
        <3>3. \A m \in messages : \A proof \in m.proofs :
                 /\ proof.number \in SlotIds
                 /\ ProofBacked(proof.number, proof.digest, Proposed, sentPrepares)
            <4>1. \A m \in sentViewChanges : \A proof \in m.proofs : proof.number \in SlotIds
                BY <1>1 DEF TypeOK, SentType, ViewChange, PreparedProof
            <4>. QED
                BY <3>2, <4>1 DEF ReproposalInv, ProofsBacked
        <3>. DEFINE pps == NewPrePrepares(n, vc.viewNumber, minS, maxS, proofs, chosen)
        <3>4. \A pp \in pps : Reproposed(pp, Proposed, sentPrepares)
            <4>1. minS \in Int /\ maxS \in Int
                BY BoundsAssumption
            <4>. HIDE DEF n, vc, messages
            <4>. QED
                BY <3>1, <3>3, <4>1, NewPrePreparesBacked
        <3>. HIDE DEF pps
        <3>5. /\ \A nv \in sentNewViews' \ sentNewViews : nv.prePrepares = pps
              /\ sentNewViews \subseteq sentNewViews'
            BY <3>1 DEF AnnounceView, pps
        <3>. QED
            BY <1>2, <2>2, <3>4, <3>5
    <2>. QED
        BY <1>3, <1>4, <1>6, <2>1, <2>2 DEF handleViewChange, changeMessageVars
<1>. QED
    BY <1>3, <1>5, <1>6, SentGrows

\* Whatever a new primary proposes again, but for a hole, was proposed before under
\* the same number in some view, and prepared there by 2f nodes.
THEOREM ReproposalCertificateHolds == Spec => []ReproposalCertificate
<1>1. Init => ReproposalInv
    BY CertificateInit, ViewInit DEF Init, ReproposalInv, ProofsBacked, NewViewsBacked
<1>2. ReproposalInv => ReproposalCertificate
    BY DEF ReproposalInv, NewViewsBacked, Reproposed, ProofBacked, ProposedAs,
        ReproposalCertificate, Preparers
<1>. QED
    BY <1>1, <1>2, ReproposalNext, PTL DEF Spec

-----------------------------------------------------------------------------
(* What the primary believes of its peers. *)

\* An answer says no more than its sender has executed, for as long as that node
\* is in the first view, where its sequence number only grows.
AnswersTrue ==
    \A rpc \in rpcs : rpc.stage \in {"arrived", "replied"} /\ viewNumber[rpc.to] = 0 =>
        rpc.seq <= sequenceNumber[rpc.to]

BelievedTrue ==
    \A n, p \in Nodes : viewNumber[p] = 0 => caughtUp[n][p] <= sequenceNumber[p]

BeliefInv == ViewInv /\ AgreementInv /\ AnswersTrue /\ BelievedTrue

\* A node that is in view 0 after a step was there before, and executed no more: no
\* view change leads to view 0.
LEMMA FirstViewProgress ==
    ASSUME ViewInv, AgreementInv, [Next]_vars
    PROVE  \A p \in Nodes : viewNumber'[p] = 0 =>
              viewNumber[p] = 0 /\ sequenceNumber[p] <= sequenceNumber'[p]
<1>1. TypeOK /\ \A p \in Nodes : sequenceNumber[p] \in Int /\ viewNumber[p] \in Nat
    BY BoundsAssumption DEF ViewInv, TypeOK, LedgerType
<1>2. ASSUME NEW packet \in inFlight, handleViewChange(packet)
      PROVE  \A p \in Nodes : viewNumber'[p] = 0 =>
                viewNumber[p] = 0 /\ sequenceNumber[p] <= sequenceNumber'[p]
    <2>1. packet.message.viewNumber >= 1 /\ packet.to \in Nodes
        BY <1>1, <1>2, PacketType
            DEF AgreementInv, PacketsProposed, PacketProposed, handleViewChange, Delivered, TypeOK
    <2>2. CASE UNCHANGED <<viewNumber, sequenceNumber>>
        BY <1>1, <2>2
    <2>3. CASE enterNewView(packet.to, packet.message.viewNumber)
        <3>1. /\ viewNumber'[packet.to] = packet.message.viewNumber
              /\ \A p \in Nodes \ {packet.to} : /\ viewNumber'[p] = viewNumber[p]
                                                /\ sequenceNumber'[p] = sequenceNumber[p]
            BY <2>1, <2>3 DEF enterNewView, ViewInv, TypeOK, LedgerType
        <3>. QED
            BY <1>1, <2>1, <3>1
    <2>. QED
        BY <1>2, <2>2, <2>3 DEF handleViewChange, LeadNewView, AnnounceView
<1>3. ASSUME NEW rpc \in rpcs, rpc.kind = "NewView", handleNewView(rpc.to, rpc.body)
      PROVE  \A p \in Nodes : viewNumber'[p] = 0 =>
                viewNumber[p] = 0 /\ sequenceNumber[p] <= sequenceNumber'[p]
    <2>. DEFINE n == rpc.to
                nv == rpc.body
    <2>1. n \in Nodes /\ nv \in NewView
        BY <1>1, <1>3, RpcType DEF TypeOK
    <2>2. CASE UNCHANGED <<viewNumber, sequenceNumber>>
        BY <1>1, <2>2
    <2>3. CASE AcceptsNewView(n, nv) /\ enterNewView(n, nv.viewNumber)
        <3>1. nv.viewNumber >= 1
            BY <1>1, <2>1, <2>3, CurrentViewType
                DEF AcceptsNewView, AgreementInv, ChangesLater, NewView
        <3>2. /\ viewNumber'[n] = nv.viewNumber
              /\ \A p \in Nodes \ {n} : /\ viewNumber'[p] = viewNumber[p]
                                        /\ sequenceNumber'[p] = sequenceNumber[p]
            BY <2>1, <2>3 DEF enterNewView, ViewInv, TypeOK, LedgerType
        <3>. QED
            BY <1>1, <2>1, <3>1, <3>2
    <2>. QED
        BY <1>3, <2>2, <2>3 DEF handleNewView, EnterAsBackup
<1>4. CASE /\ UNCHANGED viewNumber
           /\ \A p \in Nodes : sequenceNumber[p] <= sequenceNumber'[p]
    BY <1>4
<1>5. CASE UNCHANGED vars
    BY <1>1, <1>5 DEF vars, ledgerVars
<1>. QED
    BY <1>1, <1>2, <1>3, <1>4, <1>5, SameViewProgress DEF Next, RpcHandled

\* What a step must do to answers and beliefs for the invariant to survive it.
LEMMA BeliefStep ==
    ASSUME BeliefInv, [Next]_vars,
           \A rpc \in rpcs' :
               \/ rpc.stage \notin {"arrived", "replied"}
               \/ \E old \in rpcs : /\ old.stage \in {"arrived", "replied"}
                                    /\ rpc.to = old.to /\ rpc.seq = old.seq
               \/ rpc.seq <= sequenceNumber'[rpc.to],
           \A n, p \in Nodes : viewNumber'[p] = 0 =>
               \/ caughtUp'[n][p] = caughtUp[n][p]
               \/ caughtUp'[n][p] <= sequenceNumber'[p]
    PROVE  BeliefInv'
<1>1. ViewInv' /\ AgreementInv' /\ TypeOK /\ TypeOK'
    BY ViewNext, AgreementNext DEF BeliefInv, ViewInv
<1>2. \A p \in Nodes : /\ sequenceNumber[p] \in Int /\ sequenceNumber'[p] \in Int
                       /\ \A n \in Nodes : caughtUp[n][p] \in Int
    BY <1>1, BoundsAssumption DEF TypeOK, LedgerType, LeaderType
<1>3. \A p \in Nodes : viewNumber'[p] = 0 =>
         viewNumber[p] = 0 /\ sequenceNumber[p] <= sequenceNumber'[p]
    BY FirstViewProgress DEF BeliefInv
<1>4. AnswersTrue'
    <2>1. SUFFICES ASSUME NEW rpc \in rpcs', rpc.stage \in {"arrived", "replied"},
                          viewNumber'[rpc.to] = 0
                   PROVE  rpc.seq <= sequenceNumber'[rpc.to]
        BY DEF AnswersTrue
    <2>2. rpc.to \in Nodes
        BY <1>1, RpcType DEF TypeOK
    <2>3. ASSUME NEW old \in rpcs, old.stage \in {"arrived", "replied"},
                 rpc.to = old.to, rpc.seq = old.seq
          PROVE  rpc.seq <= sequenceNumber'[rpc.to]
        <3>1. old.seq <= sequenceNumber[old.to]
            BY <1>3, <2>1, <2>2, <2>3 DEF BeliefInv, AnswersTrue
        <3>2. old.seq \in Int
            BY <1>1, RpcType, BoundsAssumption DEF TypeOK
        <3>. QED
            BY <1>2, <1>3, <2>1, <2>2, <2>3, <3>1, <3>2
    <2>. QED
        BY <2>1, <2>3
<1>5. BelievedTrue'
    <2>1. SUFFICES ASSUME NEW n \in Nodes, NEW p \in Nodes, viewNumber'[p] = 0
                   PROVE  caughtUp'[n][p] <= sequenceNumber'[p]
        BY DEF BelievedTrue
    <2>2. caughtUp[n][p] <= sequenceNumber[p]
        BY <1>3, <2>1 DEF BeliefInv, BelievedTrue
    <2>. QED
        BY <1>2, <1>3, <2>1, <2>2
<1>. QED
    BY <1>1, <1>4, <1>5 DEF BeliefInv

\* The fields of an RPC that moves on.
LEMMA RpcFields ==
    ASSUME NEW rpc \in Rpc, NEW stage, NEW seq
    PROVE  /\ [rpc EXCEPT !.stage = stage].stage = stage
           /\ [rpc EXCEPT !.stage = stage].to = rpc.to
           /\ [rpc EXCEPT !.stage = stage].seq = rpc.seq
           /\ [rpc EXCEPT !.stage = stage, !.seq = seq].to = rpc.to
           /\ [rpc EXCEPT !.stage = stage, !.seq = seq].seq = seq
BY DEF Rpc, RpcOf

\* Every step preserves the invariant.
LEMMA BeliefNext == BeliefInv /\ [Next]_vars => BeliefInv'
<1>. SUFFICES ASSUME BeliefInv, [Next]_vars
              PROVE  BeliefInv'
    OBVIOUS
<1>1. TypeOK /\ TypeOK'
    BY ViewNext DEF BeliefInv, ViewInv
<1>2. \A p \in Nodes : sequenceNumber[p] \in Int /\ sequenceNumber'[p] \in 1..MaxSeq
    BY <1>1, BoundsAssumption DEF TypeOK, LedgerType
<1>3. CASE UNCHANGED <<rpcs, caughtUp>>
    BY <1>3, BeliefStep
<1>4. ASSUME NEW n \in Nodes, SendHeartbeat(n)
      PROVE  BeliefInv'
    <2>1. \A p : HeartbeatRpc(n, p).stage = "sent"
        BY DEF HeartbeatRpc, StartRpc
    <2>2. \A rpc \in rpcs' : rpc \in rpcs \/ rpc.stage = "sent"
        BY <1>4, <2>1 DEF SendHeartbeat
    <2>. QED
        BY <1>4, <2>2, BeliefStep DEF SendHeartbeat, leaderVars
<1>5. ASSUME NEW packet \in inFlight, handleViewChange(packet)
      PROVE  BeliefInv'
    <2>1. CASE UNCHANGED leaderVars /\ UNCHANGED rpcs
        BY <1>3, <2>1 DEF leaderVars
    <2>2. ASSUME NEW n, NEW view, NEW pps, NEW maxS, AnnounceView(n, view, pps, maxS)
          PROVE  BeliefInv'
        <3>1. \A rpc \in rpcs' : rpc \in rpcs \/ rpc.stage = "sent"
            BY <2>2 DEF AnnounceView, StartRpc
        <3>2. \A m, p \in Nodes : caughtUp'[m][p] = caughtUp[m][p] \/ caughtUp'[m][p] = 0
            BY <1>1, <2>2 DEF AnnounceView, TypeOK, LeaderType
        <3>. QED
            BY <1>2, <3>1, <3>2, BeliefStep
    <2>. QED
        BY <1>5, <2>1, <2>2 DEF handleViewChange, LeadNewView
<1>6. ASSUME NEW rpc \in rpcs, RpcArrives(rpc)
      PROVE  BeliefInv'
    <2>1. rpc \in Rpc /\ rpc.to \in Nodes /\ UNCHANGED <<sequenceNumber, caughtUp>>
        BY <1>1, <1>6, RpcType DEF TypeOK, RpcArrives, rpcFrame, ledgerVars
    <2>2. rpcs' = (rpcs \ {rpc}) \cup
             {[rpc EXCEPT !.stage = "arrived", !.seq = sequenceNumber[rpc.to]]}
        BY <1>6 DEF RpcArrives, Answer
    <2>3. \A r \in rpcs' : r \in rpcs \/ r.seq <= sequenceNumber'[r.to]
        <3>. DEFINE answered == [rpc EXCEPT !.stage = "arrived", !.seq = sequenceNumber[rpc.to]]
        <3>1. answered.to = rpc.to /\ answered.seq = sequenceNumber[rpc.to]
            BY <2>1, RpcFields
        <3>2. answered.seq <= sequenceNumber'[answered.to]
            BY <1>2, <2>1, <3>1
        <3>. HIDE DEF answered
        <3>. QED
            BY <2>2, <3>2 DEF answered
    <2>. QED
        BY <2>1, <2>3, BeliefStep
<1>7. ASSUME NEW rpc \in rpcs, RpcHandled(rpc)
      PROVE  BeliefInv'
    <2>1. rpc \in Rpc /\ UNCHANGED caughtUp
        BY <1>1, <1>7 DEF TypeOK, RpcHandled, handleNewView, handlePrePrepare,
            handleCheckpointProof, normalFrame, checkpointFrame, leaderVars
    <2>2. \A r \in rpcs' :
             \/ r \in rpcs
             \/ rpc.stage = "arrived" /\ r = [rpc EXCEPT !.stage = "replied"]
        BY <1>7 DEF RpcHandled
    <2>3. LET r == [rpc EXCEPT !.stage = "replied"] IN r.to = rpc.to /\ r.seq = rpc.seq
        BY <2>1, RpcFields
    <2>. QED
        BY <2>1, <2>2, <2>3, BeliefStep
<1>8. ASSUME NEW rpc \in rpcs, RpcReturns(rpc)
      PROVE  BeliefInv'
    <2>1. rpc \in Rpc /\ rpc.to \in Nodes /\ rpc.from \in Nodes /\ rpc.stage = "replied"
        BY <1>1, <1>8, RpcType DEF TypeOK, RpcReturns
    <2>2. rpcs' \subseteq rpcs /\ UNCHANGED <<viewNumber, sequenceNumber>>
        BY <1>8 DEF RpcReturns, rpcFrame, ledgerVars
    <2>3. \A n, p \in Nodes :
             \/ caughtUp'[n][p] = caughtUp[n][p]
             \/ p = rpc.to /\ (caughtUp'[n][p] = 1 \/ caughtUp'[n][p] = rpc.seq)
        BY <1>1, <1>8, <2>1 DEF RpcReturns, TypeOK, LeaderType
    <2>4. viewNumber[rpc.to] = 0 => rpc.seq <= sequenceNumber[rpc.to]
        BY <2>1 DEF BeliefInv, AnswersTrue
    <2>5. \A p \in Nodes : 1 <= sequenceNumber'[p]
        BY <1>2
    <2>6. \A n, p \in Nodes : viewNumber'[p] = 0 =>
             \/ caughtUp'[n][p] = caughtUp[n][p]
             \/ caughtUp'[n][p] <= sequenceNumber'[p]
        BY <2>2, <2>3, <2>4, <2>5
    <2>. QED
        BY <2>2, <2>6, BeliefStep
<1>9. ASSUME NEW rpc \in rpcs, RpcTimesOut(rpc)
      PROVE  BeliefInv'
    <2>1. rpc \in Rpc /\ UNCHANGED caughtUp
        BY <1>1, <1>9 DEF TypeOK, RpcTimesOut
    <2>2. \A r \in rpcs' : r \in rpcs \/ r.stage = "orphan"
        <3>1. [rpc EXCEPT !.stage = "orphan"].stage = "orphan"
            BY <2>1, RpcFields
        <3>. QED
            BY <1>9, <3>1 DEF RpcTimesOut
    <2>. QED
        BY <2>1, <2>2, BeliefStep
<1>10. ASSUME NEW packet \in inFlight,
              \/ ClientRequest(packet) \/ PrePrepareReceived(packet) \/ handlePrepare(packet)
              \/ handleCommit(packet) \/ handleCheckpoint(packet)
       PROVE  UNCHANGED <<rpcs, caughtUp>>
    BY <1>10 DEF ClientRequest, handleClientRequest, PrePrepareReceived, handlePrePrepare,
        handlePrepare, handleCommit, handleCheckpoint, normalFrame, checkpointFrame, leaderVars
<1>11. ASSUME NEW n \in Nodes,
              \/ \E r \in Requests : Propose(n, r)
              \/ handleRecvSnapshot(n) \/ Timeout(n) \/ DebugDown(n) \/ DebugUp(n)
       PROVE  UNCHANGED <<rpcs, caughtUp>>
    BY <1>11 DEF Propose, handleClientRequest, handleRecvSnapshot, Timeout, DebugDown, DebugUp,
        debugFrame, normalFrame, checkpointFrame, leaderVars
<1>. QED
    BY <1>3, <1>4, <1>5, <1>6, <1>7, <1>8, <1>9, <1>10, <1>11 DEF Next, vars, leaderVars

\* In view 0 no primary believes a peer further than it is, in whatever order the
\* answers to its heartbeats are read.
THEOREM CaughtUpBehindPeerHolds == Spec => []CaughtUpBehindPeer
<1>1. Init => BeliefInv
    <2>1. ASSUME Init
          PROVE  BelievedTrue /\ AnswersTrue
        BY <2>1 DEF Init, BelievedTrue, AnswersTrue
    <2>. QED
        BY <2>1, ViewInit, AgreementInit DEF BeliefInv
<1>2. BeliefInv => CaughtUpBehindPeer
    BY DEF BeliefInv, BelievedTrue, CaughtUpBehindPeer
<1>. QED
    BY <1>1, <1>2, BeliefNext, PTL DEF Spec

=============================================================================
