------------------------------ MODULE PBFTState ------------------------------
(***************************************************************************)
(* The state of a cluster of PBFT nodes (src/pbft): the fields of PBFTNode *)
(* (node.go), the messages of messages.go, slot numbers and leaders of     *)
(* common.go.  The handlers that change the state are in PBFTCheckpoint,   *)
(* PBFTNormal and PBFTViewChange; PBFT puts them together.                 *)
(*                                                                         *)
(* A request is an opaque value and SHA-256 is injective, so the digest of *)
(* a request is the request itself.  Signatures identify the signer.       *)
(***************************************************************************)
EXTENDS Integers, Sequences, FiniteSets

CONSTANTS
    Nodes,          \* the members of the cluster (cluster.Nodes)
    Requests,       \* client operations
    NoOp,           \* the empty request "" a new primary proposes for a hole
    Nil,            \* a nil request pointer, or an all-zero digest
    LeaderFor,      \* view number -> node: the hash-based ClusterConfig.LeaderFor
    CHECKPOINT,     \* sequence numbers between two checkpoints
    MaxView,        \* bound: no node starts a view change beyond this view
    MaxSeq,         \* bound: no primary issues a sequence number beyond this one
    MaxOutstanding, \* bound: heartbeat RPCs of one primary in progress at a time
    Clients,        \* bound: the nodes that receive client requests
    Droppable,      \* bound: the nodes the debug REPL may take down
    Links           \* bound: kind of message -> <<from, to>> pairs; RPCs between others are lost

MessageKinds == {"ClientRequest", "PrePrepare", "Prepare", "Commit", "Checkpoint",
                 "ViewChange", "Heartbeat"}

ASSUME NodesAssumption ==
    /\ IsFiniteSet(Nodes)
    /\ Clients \subseteq Nodes /\ Droppable \subseteq Nodes
    /\ Links \in [MessageKinds -> SUBSET {link \in Nodes \X Nodes : link[1] # link[2]}]
ASSUME RequestsAssumption == NoOp \notin Requests /\ Nil \notin Requests /\ NoOp # Nil
ASSUME BoundsAssumption == MaxView \in Nat /\ MaxSeq \in Nat \ {0} /\ MaxOutstanding \in Nat
ASSUME CheckpointAssumption == CHECKPOINT \in Nat \ {0}
ASSUME LeaderForAssumption == LeaderFor \in [0..MaxView -> Nodes]

-----------------------------------------------------------------------------
(* Slot numbers, ordered by view and then by sequence number. *)

SlotIds == [viewNumber : 0..MaxView, seqNumber : 0..MaxSeq]

SlotId(v, s) == [viewNumber |-> v, seqNumber |-> s]

Before(a, b) ==
    \/ a.viewNumber < b.viewNumber
    \/ a.viewNumber = b.viewNumber /\ a.seqNumber < b.seqNumber

BeforeOrEqual(a, b) ==
    \/ a.viewNumber < b.viewNumber
    \/ a.viewNumber = b.viewNumber /\ a.seqNumber <= b.seqNumber

Larger(a, b) == IF a > b THEN a ELSE b

-----------------------------------------------------------------------------
(* Quorums.  peermap holds every node but the node itself. *)

NPeers == Cardinality(Nodes) - 1

Peers(n) == Nodes \ {n}

PrepareQuorum == 2 * (NPeers \div 3)

CommitQuorum == 2 * (NPeers \div 3)

CheckpointQuorum == 2 * (NPeers \div 3) + 1

JoinQuorum == (NPeers \div 3) + 1

ViewChangeQuorum == (2 * NPeers) \div 3

-----------------------------------------------------------------------------
(* Messages.  `signer' and `node' are the identity the signature proves; a *)
(* node drops a message whose signature is not that of the node it names,  *)
(* and honest nodes sign what they send, so no other message is sent.      *)

Proposals == Requests \cup {NoOp}

PrePrepare == [number : SlotIds, digest : Proposals \cup {Nil},
               request : Proposals, signer : Nodes]

Prepare == [number : SlotIds, digest : Proposals \cup {Nil}, node : Nodes]

Commit == [number : SlotIds, digest : Proposals \cup {Nil}, node : Nodes]

\* The snapshot of a key store is the sequence of operations it has applied.
Snapshot == Seq(Requests)

Checkpoint == [number : SlotIds, snapshot : Snapshot, node : Nodes]

\* The 2f+1 signed checkpoints of a proof are not looked at by its receivers.
CheckpointProof == [number : SlotIds, snapshot : Snapshot]

PreparedProof == [number : SlotIds, digest : Proposals \cup {Nil}, request : Proposals]

ViewChange == [viewNumber : 0..MaxView, checkpoint : SlotIds,
               proofs : SUBSET PreparedProof, node : Nodes]

\* The view-change messages a NewView carries are not looked at by its receivers.
NewView == [viewNumber : 0..MaxView, prePrepares : SUBSET PrePrepare, node : Nodes]

\* PrePrepare{}: a heartbeat that proposes nothing.
Heartbeat(n) == [number |-> SlotId(0, 0), digest |-> Nil, request |-> NoOp, signer |-> n]

\* A broadcast is one packet to each peer, handled at most once.  A packet is
\* accepted when its RPC has reached the receiver before that went `down'.
PacketOf(kind, Body) == [kind : {kind}, to : Nodes, message : Body, accepted : BOOLEAN]

ForwardedRequest == [request : Requests, node : Nodes]

Packet == PacketOf("ClientRequest", ForwardedRequest) \cup PacketOf("PrePrepare", PrePrepare)
            \cup PacketOf("Prepare", Prepare) \cup PacketOf("Commit", Commit)
            \cup PacketOf("Checkpoint", Checkpoint) \cup PacketOf("ViewChange", ViewChange)

Linked(kind, n) == {p \in Nodes : <<n, p>> \in Links[kind]}

\* What broadcast() puts on the wire; a packet that is never handled is lost.
Broadcast(kind, n, message) ==
    {[kind |-> kind, to |-> p, message |-> message, accepted |-> FALSE] :
        p \in Linked(kind, n)}

\* A heartbeat RPC: sent, then arrived (when the receiver's sequence number is
\* copied for the response), then handled and replied; an orphan has arrived but
\* its sender has stopped waiting for the response.
RpcOf(kind, Body) == [kind : {kind}, from : Nodes, to : Nodes, body : Body,
                      stage : {"sent", "arrived", "replied", "orphan"}, seq : 0..MaxSeq]

Rpc == RpcOf("NewView", NewView) \cup RpcOf("PrePrepare", PrePrepare)
         \cup RpcOf("CheckpointProof", CheckpointProof)

-----------------------------------------------------------------------------
(* A log slot.  preprepare is non-nil exactly when request is, prepared is *)
(* set exactly when the node's own commit is in commits: neither is kept.  *)
(* Of the prepares and commits the code only reads who sent them.  A slot  *)
(* that ensureMapping has just created differs in nothing from an absent   *)
(* one, so the log is total and absent slots are EmptySlot.                *)

Slot == [request : Proposals \cup {Nil}, requestDigest : Proposals \cup {Nil},
         prepares : SUBSET Nodes, commits : SUBSET Nodes, committed : BOOLEAN]

EmptySlot == [request |-> Nil, requestDigest |-> Nil, prepares |-> {},
              commits |-> {}, committed |-> FALSE]

ProposedSlot(request, digest) ==
    [EmptySlot EXCEPT !.request = request, !.requestDigest = digest]

\* A checkpoint that is not stable yet; absent while nobody has signed it.
Pending == [snapshot : Snapshot, proof : SUBSET Nodes]

EmptyPending == [snapshot |-> <<>>, proof |-> {}]

-----------------------------------------------------------------------------
VARIABLES
    \* the ledger and the node's place in it
    log, viewNumber, sequenceNumber, issuedSequenceNumber, requests,
    \* viewChangeInfo, split into its three fields
    changing, changeTo, changeMessages,
    \* checkpoints
    lastCheckpoint, pendingCheckpoints,
    \* what the primary knows of its peers, and the NewView it repeats to them
    caughtUp, newView,
    \* process state: the backup's timeoutTimer is armed, the debug flag `down',
    \* and whether the main loop runs, has panicked or is blocked on a channel
    timerArmed, down, mainLoop,
    \* the KeyNode behind the channels: operations applied to the key store and
    \* snapshots on their way back (one in the buffer, one in the sender's hand)
    store, snapshots,
    \* every message ever broadcast; nothing but the properties reads them
    sentPrePrepares, sentPrepares, sentCommits, sentCheckpoints, sentViewChanges,
    sentNewViews,
    \* broadcast packets not handled yet, and heartbeat RPCs in progress
    inFlight, rpcs

ledgerVars == <<log, viewNumber, sequenceNumber, issuedSequenceNumber, requests>>
changeVars == <<changing, changeTo, changeMessages>>
checkpointVars == <<lastCheckpoint, pendingCheckpoints>>
leaderVars == <<caughtUp, newView>>
keyVars == <<store, snapshots>>
normalMessages == <<sentPrePrepares, sentPrepares, sentCommits>>
changeMessageVars == <<sentViewChanges, sentNewViews>>

vars == <<ledgerVars, changeVars, checkpointVars, leaderVars, timerArmed, down, mainLoop,
          keyVars, normalMessages, sentCheckpoints, changeMessageVars, inFlight, rpcs>>

LedgerType ==
    /\ log \in [Nodes -> [SlotIds -> Slot]]
    /\ viewNumber \in [Nodes -> 0..MaxView]
    /\ sequenceNumber \in [Nodes -> 1..MaxSeq]
    /\ issuedSequenceNumber \in [Nodes -> 1..MaxSeq]
    /\ requests \in [Nodes -> SUBSET Requests]

ChangeType ==
    /\ changing \in [Nodes -> BOOLEAN]
    /\ changeTo \in [Nodes -> 0..MaxView]
    /\ changeMessages \in [Nodes -> SUBSET ViewChange]

CheckpointType ==
    /\ lastCheckpoint \in [Nodes -> CheckpointProof]
    /\ pendingCheckpoints \in [Nodes -> [SlotIds -> Pending]]

LeaderType ==
    /\ caughtUp \in [Nodes -> [Nodes -> 0..MaxSeq]]
    /\ newView \in [Nodes -> NewView]

ProcessType ==
    /\ timerArmed \in [Nodes -> BOOLEAN]
    /\ down \in [Nodes -> BOOLEAN]
    /\ mainLoop \in [Nodes -> {"running", "panicked", "blocked"}]

KeyType ==
    /\ store \in [Nodes -> Snapshot]
    /\ snapshots \in [Nodes -> Seq(CheckpointProof)]

SentType ==
    /\ sentPrePrepares \subseteq PrePrepare
    /\ sentPrepares \subseteq Prepare
    /\ sentCommits \subseteq Commit
    /\ sentCheckpoints \subseteq Checkpoint
    /\ sentViewChanges \subseteq ViewChange
    /\ sentNewViews \subseteq NewView

\* Every variable holds what the Go type of its field allows, within the bounds.
TypeOK ==
    /\ LedgerType /\ ChangeType /\ CheckpointType /\ LeaderType
    /\ ProcessType /\ KeyType /\ SentType
    /\ inFlight \subseteq Packet
    /\ rpcs \subseteq Rpc

Init ==
    /\ log = [n \in Nodes |-> [id \in SlotIds |-> EmptySlot]]
    /\ viewNumber = [n \in Nodes |-> 0]
    /\ sequenceNumber = [n \in Nodes |-> 1]
    /\ issuedSequenceNumber = [n \in Nodes |-> 1]
    /\ requests = [n \in Nodes |-> {}]
    /\ changing = [n \in Nodes |-> FALSE]
    /\ changeTo = [n \in Nodes |-> 0]
    /\ changeMessages = [n \in Nodes |-> {}]
    /\ lastCheckpoint = [n \in Nodes |-> [number |-> SlotId(0, 0), snapshot |-> <<>>]]
    /\ pendingCheckpoints = [n \in Nodes |-> [id \in SlotIds |-> EmptyPending]]
    /\ caughtUp = [n \in Nodes |-> [p \in Nodes |-> 1]]
    /\ newView = [n \in Nodes |-> [viewNumber |-> 0, prePrepares |-> {}, node |-> n]]
    /\ timerArmed = [n \in Nodes |-> n # LeaderFor[0]]
    /\ down = [n \in Nodes |-> FALSE]
    /\ mainLoop = [n \in Nodes |-> "running"]
    /\ store = [n \in Nodes |-> <<>>]
    /\ snapshots = [n \in Nodes |-> <<>>]
    /\ sentPrePrepares = {} /\ sentPrepares = {} /\ sentCommits = {}
    /\ sentCheckpoints = {} /\ sentViewChanges = {} /\ sentNewViews = {}
    /\ inFlight = {} /\ rpcs = {}

-----------------------------------------------------------------------------
Running(n) == mainLoop[n] = "running"

\* The RPC of a packet gets to the main loop of its receiver.
Delivered(packet, kind) ==
    /\ packet.kind = kind
    /\ Running(packet.to)
    /\ ~down[packet.to] \/ packet.accepted

\* Client requests, pre-prepares, prepares and commits are dropped in a view change.
Always(n) == TRUE

TakesPart(n) == ~changing[n]

IsPrimary(n) == LeaderFor[viewNumber[n]] = n

\* The view a node is in or is changing to.
CurrentView(n) == IF changing[n] THEN changeTo[n] ELSE viewNumber[n]

\* isPrepared, without its count of prepares.
IsProposed(slot) == slot.request # Nil

JustPrepared(slot) ==
    /\ IsProposed(slot)
    /\ Cardinality(slot.prepares) = PrepareQuorum

IsPrepared(slot) ==
    /\ IsProposed(slot)
    /\ Cardinality(slot.prepares) >= PrepareQuorum

IsCommitted(slot) == Cardinality(slot.commits) >= CommitQuorum

=============================================================================
