------------------------------ MODULE PBFTNormal ------------------------------
(***************************************************************************)
(* The handlers of the normal case (src/pbft/node.go): client requests,    *)
(* the three phases, and the switch `down' of debug.go.                    *)
(*                                                                         *)
(* The network delivers packets in any order, each once or never.  Where a *)
(* handler returns at once and changes nothing (the node is changing view, *)
(* say) its action is not enabled: the packet it drops is as good as lost. *)
(***************************************************************************)
EXTENDS PBFTCheckpoint

\* What no action of this module changes.
normalFrame == <<viewNumber, changing, changeTo, changeMessages, leaderVars, checkpointVars,
                 sentCheckpoints, sentViewChanges, sentNewViews>>

-----------------------------------------------------------------------------
(* Client requests. *)

NumberAfterExecuted(n) == sequenceNumber[n] + 1

NextNumber(n) == issuedSequenceNumber[n] + 1

\* The primary gives the request the next sequence number, in a fresh slot.
PrimaryProposes(n, r, done) ==
    LET id == SlotId(viewNumber[n], NextNumber(n))
        pp == [number |-> id, digest |-> r, request |-> r, signer |-> n]
    IN
    /\ IsPrimary(n)
    /\ issuedSequenceNumber[n] < MaxSeq
    /\ issuedSequenceNumber' = [issuedSequenceNumber EXCEPT ![n] = id.seqNumber]
    /\ log' = [log EXCEPT ![n][id] = ProposedSlot(r, r)]
    /\ sentPrePrepares' = sentPrePrepares \cup {pp}
    /\ inFlight' = (inFlight \ done) \cup Broadcast("PrePrepare", n, pp)

\* A backup sends the request on to every peer, not just to the primary.
BackupForwards(n, r, done) ==
    /\ ~IsPrimary(n)
    /\ inFlight' = (inFlight \ done) \cup
         Broadcast("ClientRequest", n, [request |-> r, node |-> n])
    /\ UNCHANGED <<issuedSequenceNumber, log, sentPrePrepares>>

AnyRequest(n, r) == TRUE

IsNew(n, r) == r \notin requests[n]

\* A request is taken once; `done' is the packet that brought it, if one did.
handleClientRequest(n, r, done) ==
    /\ TakesPart(n) /\ IsNew(n, r)
    /\ requests' = [requests EXCEPT ![n] = @ \cup {r}]
    /\ PrimaryProposes(n, r, done) \/ BackupForwards(n, r, done)
    /\ UNCHANGED <<normalFrame, sequenceNumber, timerArmed, down, mainLoop, keyVars,
                   sentPrepares, sentCommits, rpcs>>

\* A request from an HTTP client (Propose, queued in requestChannel) or from the
\* debug operation PUT, which a node that is down serves too.
Propose(n, r) ==
    /\ Running(n) /\ n \in Clients
    /\ handleClientRequest(n, r, {})

\* The ClientRequest RPC of a backup that forwards.
ClientRequest(packet) ==
    /\ Delivered(packet, "ClientRequest")
    /\ handleClientRequest(packet.to, packet.message.request, {packet})

-----------------------------------------------------------------------------
(* Pre-prepares. *)

\* handlePrePrepare goes past its first checks and resets the timer.  Only a
\* pre-prepare of the node's own view need come from the primary for that.
HearsHeartbeat(n, pp) ==
    /\ TakesPart(n) /\ ~IsPrimary(n)
    /\ pp.number.viewNumber = viewNumber[n] => pp.signer = LeaderFor[viewNumber[n]]

WithinWaterMarks(n, number) ==
    /\ number.seqNumber > lastCheckpoint[n].number.seqNumber
    /\ number.seqNumber <= lastCheckpoint[n].number.seqNumber + 3 * CHECKPOINT

\* The other checks, in a backup whose view is `view'.
Accepts(n, view, pp) ==
    /\ LeaderFor[view] # n
    /\ pp.signer = LeaderFor[view]
    /\ pp.number.viewNumber = view
    /\ WithinWaterMarks(n, pp.number)
    /\ pp.digest = pp.request
    /\ log[n][pp.number].request = Nil

\* The slot of an accepted pre-prepare, with the node's own prepare.
AcceptedSlot(n, slot, request, digest) ==
    [slot EXCEPT !.request = request, !.requestDigest = digest, !.prepares = @ \cup {n}]

PrepareFor(n, pp) == [number |-> pp.number, digest |-> pp.digest, node |-> n]

\* The handler of a PrePrepare; `rpcs' is its caller's.
handlePrePrepare(n, pp, done) ==
    /\ timerArmed' = [timerArmed EXCEPT ![n] = @ \/ HearsHeartbeat(n, pp)]
    /\ \/ /\ HearsHeartbeat(n, pp) /\ Accepts(n, viewNumber[n], pp)
          /\ log' = [log EXCEPT ![n][pp.number] = AcceptedSlot(n, @, pp.request, pp.digest)]
          /\ issuedSequenceNumber' =
               [issuedSequenceNumber EXCEPT ![n] = Larger(@, pp.number.seqNumber)]
          /\ sentPrepares' = sentPrepares \cup {PrepareFor(n, pp)}
          /\ inFlight' = (inFlight \ done) \cup Broadcast("Prepare", n, PrepareFor(n, pp))
       \/ /\ ~(HearsHeartbeat(n, pp) /\ Accepts(n, viewNumber[n], pp))
          /\ inFlight' = inFlight \ done
          /\ UNCHANGED <<log, issuedSequenceNumber, sentPrepares>>
    /\ UNCHANGED <<normalFrame, sequenceNumber, requests, down, mainLoop, keyVars,
                   sentPrePrepares, sentCommits>>

\* The PrePrepare RPC of the primary's broadcast.
PrePrepareReceived(packet) ==
    /\ Delivered(packet, "PrePrepare")
    /\ HearsHeartbeat(packet.to, packet.message)
    /\ handlePrePrepare(packet.to, packet.message, {packet})
    /\ UNCHANGED rpcs

-----------------------------------------------------------------------------
(* Prepares and commits. *)

CountPrepare(slot, node) == [slot EXCEPT !.prepares = @ \cup {node}]

CountCommit(slot, node) == [slot EXCEPT !.commits = @ \cup {node}]

\* Every prepare is counted, whatever its view, its number and its digest; once
\* the slot is prepared every further one makes the node broadcast its commit.
handlePrepare(packet) ==
    LET n == packet.to
        message == packet.message
        slot == CountPrepare(log[n][message.number], message.node)
        commit == [number |-> message.number, digest |-> message.digest, node |-> n]
    IN
    /\ Delivered(packet, "Prepare")
    /\ TakesPart(n)
    /\ \/ /\ IsPrepared(slot)
          /\ log' = [log EXCEPT ![n][message.number] = CountCommit(slot, n)]
          /\ sentCommits' = sentCommits \cup {commit}
          /\ inFlight' = (inFlight \ {packet}) \cup Broadcast("Commit", n, commit)
       \/ /\ ~IsPrepared(slot)
          /\ log' = [log EXCEPT ![n][message.number] = slot]
          /\ inFlight' = inFlight \ {packet}
          /\ UNCHANGED sentCommits
    /\ UNCHANGED <<normalFrame, sequenceNumber, issuedSequenceNumber, requests, timerArmed,
                   down, mainLoop, keyVars, sentPrePrepares, sentPrepares, rpcs>>

\* The KeyNode applies a committed request: a nil pointer is skipped, and the
\* empty request does not decode.
Applied(operations, request) ==
    IF request \in Requests THEN Append(operations, request) ELSE operations

\* Committed() <- slot.request, then tryCheckpoint.
Execute(n, request, number) ==
    LET applied == Applied(store[n], request) IN
    \/ /\ KeyNodeBlocked(snapshots[n])
       /\ mainLoop' = [mainLoop EXCEPT ![n] = "blocked"]
       /\ UNCHANGED keyVars
    \/ /\ ~KeyNodeBlocked(snapshots[n])
       /\ store' = [store EXCEPT ![n] = applied]
       /\ tryCheckpoint(n, number, applied)
       /\ UNCHANGED mainLoop

NowFirstCommit(slot) == ~slot.committed /\ slot.commits # {}

\* 2f commits commit the slot, prepared or not, pre-prepare or not.
NowCommitted(slot) == ~slot.committed /\ IsCommitted(slot)

AnyNumber(n, id) == TRUE

\* Commits for what is before the last checkpoint are dropped.
StillCounts(n, id) == ~Before(id, lastCheckpoint[n].number)

handleCommit(packet) ==
    LET n == packet.to
        id == packet.message.number
        slot == CountCommit(log[n][id], packet.message.node)
        number == Larger(sequenceNumber[n], id.seqNumber)
    IN
    /\ Delivered(packet, "Commit")
    /\ TakesPart(n) /\ StillCounts(n, id)
    /\ inFlight' = inFlight \ {packet}
    /\ \/ /\ NowCommitted(slot)
          /\ log' = [log EXCEPT ![n][id] = [slot EXCEPT !.committed = TRUE]]
          /\ sequenceNumber' = [sequenceNumber EXCEPT ![n] = number]
          /\ Execute(n, slot.request, number)
       \/ /\ ~NowCommitted(slot)
          /\ log' = [log EXCEPT ![n][id] = slot]
          /\ UNCHANGED <<sequenceNumber, keyVars, mainLoop>>
    /\ UNCHANGED <<normalFrame, issuedSequenceNumber, requests, timerArmed, down,
                   normalMessages, rpcs>>

-----------------------------------------------------------------------------
(* The debug switch.  RPCs the node has accepted when it goes down still   *)
(* reach its main loop.                                                    *)

debugFrame == <<normalFrame, ledgerVars, timerArmed, mainLoop, keyVars, normalMessages, rpcs>>

DebugDown(n) ==
    /\ Running(n) /\ ~down[n] /\ n \in Droppable
    /\ down' = [down EXCEPT ![n] = TRUE]
    /\ \E got \in SUBSET {packet \in inFlight : packet.to = n /\ ~packet.accepted} :
          inFlight' = (inFlight \ got) \cup {[packet EXCEPT !.accepted = TRUE] : packet \in got}
    /\ UNCHANGED debugFrame

DebugUp(n) ==
    /\ Running(n) /\ down[n]
    /\ down' = [down EXCEPT ![n] = FALSE]
    /\ UNCHANGED <<debugFrame, inFlight>>

=============================================================================
