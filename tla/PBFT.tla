--------------------------------- MODULE PBFT ---------------------------------
(***************************************************************************)
(* A cluster of PBFT nodes: the handlers of the other modules, put         *)
(* together the way the main loop's select statement does (handleMessages  *)
(* in src/pbft/node.go), and the properties of the whole.                  *)
(***************************************************************************)
EXTENDS PBFTHeartbeat

\* The main loop takes a message, or a timer, that is ready; RPCs progress.
Next ==
    \/ \E n \in Nodes, r \in Requests : Propose(n, r)
    \/ \E packet \in inFlight : ClientRequest(packet)
    \/ \E packet \in inFlight : PrePrepareReceived(packet)
    \/ \E packet \in inFlight : handlePrepare(packet)
    \/ \E packet \in inFlight : handleCommit(packet)
    \/ \E packet \in inFlight : handleCheckpoint(packet)
    \/ \E packet \in inFlight : handleViewChange(packet)
    \/ \E n \in Nodes : handleRecvSnapshot(n)
    \/ \E n \in Nodes : SendHeartbeat(n)
    \/ \E n \in Nodes : Timeout(n)
    \/ \E n \in Nodes : DebugDown(n)
    \/ \E n \in Nodes : DebugUp(n)
    \/ \E rpc \in rpcs : RpcArrives(rpc)
    \/ \E rpc \in rpcs : RpcHandled(rpc)
    \/ \E rpc \in rpcs : RpcReturns(rpc)
    \/ \E rpc \in rpcs : RpcTimesOut(rpc)

Spec == Init /\ [][Next]_vars

-----------------------------------------------------------------------------
(* Certificates: what must have happened before a node may do something. *)

\* Everything a primary has proposed, in a pre-prepare of its own or a NewView.
Proposed == sentPrePrepares \cup UNION {nv.prePrepares : nv \in sentNewViews}

Senders(messages, id) == {m.node : m \in {x \in messages : x.number = id}}

Preparers(id) == Senders(sentPrepares, id)

Committers(id) == Senders(sentCommits, id)

\* Nobody commits on its own authority: what a Commit names (handlePrepare) some
\* primary has proposed, and 2f nodes have sent a Prepare for it.
CommitCertificate ==
    \A c \in sentCommits :
        /\ \E pp \in Proposed : pp.number = c.number
        /\ Cardinality(Preparers(c.number)) >= PrepareQuorum

\* A slot that handleCommit has marked committed was committed by 2f nodes.
CommittedCertificate ==
    \A n \in Nodes, id \in SlotIds :
        log[n][id].committed => Cardinality(Committers(id)) >= CommitQuorum

\* The checkpoint a node relies on, voted for or received in a heartbeat, was
\* signed by 2f+1 nodes, and its snapshot is that of one of them (isStable,
\* handleCheckpointProof).
CheckpointCertificate ==
    \A n \in Nodes :
        LET checkpoint == lastCheckpoint[n] IN
        checkpoint.number # SlotId(0, 0) =>
            /\ Cardinality(Senders(sentCheckpoints, checkpoint.number)) >= CheckpointQuorum
            /\ \E m \in sentCheckpoints :
                  m.number = checkpoint.number /\ m.snapshot = checkpoint.snapshot

\* A node is in a view only if the leader of the view has announced it, and the
\* leader announces it only if 2f other nodes have asked for it (handleViewChange).
ViewCertificate ==
    \A n \in Nodes : viewNumber[n] # 0 =>
        \E nv \in sentNewViews :
            /\ nv.viewNumber = viewNumber[n] /\ nv.node = LeaderFor[nv.viewNumber]
            /\ Cardinality({vc.node : vc \in {m \in sentViewChanges :
                    m.viewNumber = nv.viewNumber /\ m.node # nv.node}}) >= ViewChangeQuorum

\* What a new primary proposes again, and is not a hole, 2f nodes had prepared
\* under the same number in some view (generatePrepreparesForNewView): not always
\* an earlier one, for a primary may lead a view it has left behind.
ReproposalCertificate ==
    \A nv \in sentNewViews : \A pp \in nv.prePrepares :
        pp.digest # NoOp =>
            \E v \in 0..MaxView :
                LET id == SlotId(v, pp.number.seqNumber) IN
                /\ \E old \in Proposed : old.number = id /\ old.digest = pp.digest
                /\ Cardinality(Preparers(id)) >= PrepareQuorum

-----------------------------------------------------------------------------
(* Agreement. *)

\* In view 0 no two nodes hold different requests for one slot, though nobody
\* compares the digests of prepares and commits with that of the slot.
AgreementInFirstView ==
    \A n, m \in Nodes, id \in SlotIds :
        /\ id.viewNumber = 0
        /\ log[n][id].request # Nil /\ log[m][id].request # Nil
        => log[n][id].request = log[m][id].request

\* Until a view change no node executes an operation its key store has applied, by
\* whatever ways and how often the request has reached the primary
\* (handleClientRequest) and however late its commits are; but for that of the last
\* checkpoint's own number, which the snapshot holds and handleCommit still lets pass.
AppliedOnce ==
    [][\A n \in Nodes :
        /\ \A m \in Nodes : viewNumber[m] = 0
        /\ store'[n] # store[n] /\ lastCheckpoint'[n] = lastCheckpoint[n]
        => LET r == store'[n][Len(store'[n])] IN
           (\E i \in 1..Len(store[n]) : store[n][i] = r)
           => \E pp \in sentPrePrepares :
                 pp.number = lastCheckpoint[n].number /\ pp.request = r]_vars

-----------------------------------------------------------------------------
(* Checkpoints and catching up. *)

\* A node that is not stuck has reached the checkpoint it has thrown away its
\* votes for: checkpointed() and enterNewView keep the two numbers in step.
ReachedCheckpoint ==
    \A n \in Nodes : Running(n) =>
        lastCheckpoint[n].number.seqNumber <= sequenceNumber[n]

\* No vote is kept for a checkpoint that is stable or passed by: pending votes
\* never again change what a node believes stable.
PendingAfterStable ==
    \A n \in Nodes, id \in SlotIds :
        pendingCheckpoints[n][id].proof # {} => Before(lastCheckpoint[n].number, id)

\* The last checkpoint never moves back, by a vote or by a late heartbeat.
CheckpointMonotonic ==
    [][\A n \in Nodes : BeforeOrEqual(lastCheckpoint[n].number, lastCheckpoint'[n].number)]_vars

\* In view 0 the primary never believes a peer further than it is, however late
\* an answer to a heartbeat is read.  (How far a peer is does not say that it has
\* everything up to there: a commit before its pre-prepare takes it past a slot
\* that it lacks.)
CaughtUpBehindPeer ==
    \A n, p \in Nodes : n # p /\ viewNumber[p] = 0 => caughtUp[n][p] <= sequenceNumber[p]

\* What a heartbeat resends in view 0 is what the primary once proposed.
ResentAsProposed ==
    \A rpc \in rpcs :
        /\ rpc.kind = "PrePrepare"
        /\ rpc.body.number.viewNumber = 0 /\ rpc.body.number.seqNumber # 0
        => rpc.body \in sentPrePrepares

-----------------------------------------------------------------------------
(* View changes. *)

\* view_change.go: a node that changes view accepts nothing of the normal case:
\* it prepares, commits, proposes and executes nothing.
QuietWhileChanging ==
    [][\A n \in Nodes : changing[n] /\ changing'[n] =>
           /\ \A m \in (sentPrepares' \cup sentCommits') \ (sentPrepares \cup sentCommits) :
                 m.node # n
           /\ \A pp \in sentPrePrepares' \ sentPrePrepares : pp.signer # n
           /\ log'[n] # log[n] => lastCheckpoint'[n] # lastCheckpoint[n]]_vars

\* Views never go back, and within a view neither does what a node has executed: a
\* backup enters once the view whose NewView is repeated, and a primary goes back
\* only at the end of a view change, to a view it leads (handleViewChange).
ProgressMonotonic ==
    [][\A n \in Nodes :
           \/ viewNumber[n] < viewNumber'[n]
           \/ changing[n] /\ ~changing'[n] /\ LeaderFor[viewNumber'[n]] = n
           \/ viewNumber[n] = viewNumber'[n] /\ sequenceNumber[n] <= sequenceNumber'[n]]_vars

\* The first NewView of a cluster carries on what was committed before it: a slot
\* that a node has committed to, of those whose view change the leader has, is
\* proposed again with its request and number, unless it is not after the last
\* checkpoint that the leader or one of them relies on (generateProofsSinceCheckpoint,
\* generatePrepreparesForNewView).
CommitsCarriedOver ==
    [][\A nv \in sentNewViews' :
           LET heard == changeMessages'[nv.node] IN
           \A vc \in heard, c \in sentCommits :
               /\ sentNewViews = {} /\ c.node = vc.node
               /\ \A stable \in StableNumbers(nv.node, heard) : stable < c.number.seqNumber
               => \E old \in sentPrePrepares, pp \in nv.prePrepares :
                     /\ old.number = c.number
                     /\ pp.number = SlotId(nv.viewNumber, c.number.seqNumber)
                     /\ pp.request = old.request]_vars

\* A node that is down asks for no view, not even on a message it had accepted.
DownAsksForNoView ==
    [][\A vc \in sentViewChanges' \ sentViewChanges : ~down[vc.node]]_vars

-----------------------------------------------------------------------------
(* What the documents claim and the code does not do. *)

\* docs/design.md: the cluster cannot report two different sets of keys for a
\* user.  Of the operations two nodes have applied, one is a prefix of the other.
Consistency ==
    \A n, m \in Nodes : \A i \in 1..Len(store[n]) :
        i <= Len(store[m]) => store[n][i] = store[m][i]

\* node.go: reading caughtUp first and using it later only sends an unnecessary
\* pre-prepare.  No heartbeat kills the primary.
NeverPanics == \A n \in Nodes : mainLoop[n] # "panicked"

\* node.go: recvSnapshotChannel has a buffer to prevent deadlock.
NeverBlocks == \A n \in Nodes : mainLoop[n] # "blocked"

\* docs/design.md, across views: no two nodes commit different requests under one
\* sequence number.
OneRequestPerNumber ==
    \A n, m \in Nodes, i, j \in SlotIds :
        /\ i.seqNumber = j.seqNumber
        /\ log[n][i].committed /\ log[m][j].committed
        /\ {log[n][i].request, log[m][j].request} \subseteq Requests
        => log[n][i].request = log[m][j].request

=============================================================================
