---------------------------- MODULE PBFTCheckpoint ----------------------------
(***************************************************************************)
(* Checkpoints (src/pbft/checkpoint.go), with the part of the KeyNode that *)
(* takes and applies snapshots (handleUpdates in keynode.go).              *)
(*                                                                         *)
(* KeyNode and main loop talk over unbuffered channels, except that one    *)
(* snapshot fits in recvSnapshotChannel.  A second snapshot stays in the   *)
(* KeyNode's hand: until the main loop takes the first, the KeyNode takes  *)
(* nothing, and the main loop blocks forever if it has something to give.  *)
(***************************************************************************)
EXTENDS PBFTState

KeyNodeBlocked(queue) == Len(queue) = 2

\* The ids checkpointed() deletes, from the pending checkpoints and from the log:
\* its second loop, over the log's own stable ids, deletes nothing.
FlushedBefore(pending, number) ==
    {id \in SlotIds : pending[id].proof # {} /\ Before(id, number)}

Flushed(pending, number) ==
    {id \in SlotIds : pending[id].proof # {} /\ BeforeOrEqual(id, number)}

HasSomeVotes(proof) == Cardinality(proof) >= JoinQuorum

HasQuorum(proof) == Cardinality(proof) >= CheckpointQuorum

\* isStable, given a map of pending checkpoints.
IsStable(n, number, pending) ==
    \/ BeforeOrEqual(number, lastCheckpoint[n].number)
    \/ HasQuorum(pending[number].proof)

IsAhead(n, number) == sequenceNumber[n] > number.seqNumber

IsBehind(n, number) == sequenceNumber[n] < number.seqNumber

\* Hand the snapshot of a checkpoint that is ahead of the node to the KeyNode.
CatchUpTo(n, checkpoint, queue) ==
    LET behind == IsBehind(n, checkpoint.number) IN
    \/ /\ ~behind
       /\ UNCHANGED <<sequenceNumber, store, mainLoop>>
    \/ /\ behind /\ ~KeyNodeBlocked(queue)
       /\ store' = [store EXCEPT ![n] = checkpoint.snapshot]
       /\ sequenceNumber' = [sequenceNumber EXCEPT ![n] = checkpoint.number.seqNumber]
       /\ UNCHANGED mainLoop
    \/ /\ behind /\ KeyNodeBlocked(queue)
       /\ mainLoop' = [mainLoop EXCEPT ![n] = "blocked"]
       /\ UNCHANGED <<sequenceNumber, store>>

NothingPassed(n, number) == FALSE

\* The node has moved on to a later checkpoint.
IsPassed(n, number) == Before(number, lastCheckpoint[n].number)

\* checkpointed(): `pending' is pendingCheckpoints[n] as its caller leaves it.
Checkpointed(n, checkpoint, pending, queue) ==
    LET flushed == Flushed(pending, checkpoint.number) IN
    \/ /\ IsPassed(n, checkpoint.number)
       /\ pendingCheckpoints' = [pendingCheckpoints EXCEPT ![n] = pending]
       /\ UNCHANGED <<lastCheckpoint, log, sequenceNumber, store, mainLoop>>
    \/ /\ ~IsPassed(n, checkpoint.number)
       /\ lastCheckpoint' = [lastCheckpoint EXCEPT ![n] = checkpoint]
       /\ pendingCheckpoints' = [pendingCheckpoints EXCEPT ![n] =
            [id \in SlotIds |-> IF id \in flushed THEN EmptyPending ELSE pending[id]]]
       /\ log' = [log EXCEPT ![n] =
            [id \in SlotIds |-> IF id \in flushed THEN EmptySlot ELSE log[n][id]]]
       /\ CatchUpTo(n, checkpoint, queue)

\* A vote for a checkpoint; the first one decides the snapshot that is kept.
Voted(pending, message) ==
    LET old == pending[message.number] IN
    [pending EXCEPT ![message.number] =
        [snapshot |-> IF old.proof = {} THEN message.snapshot ELSE old.snapshot,
         proof |-> old.proof \cup {message.node}]]

handleCheckpointNoValidation(n, message, queue) ==
    LET number == message.number
        pending == Voted(pendingCheckpoints[n], message)
    IN  \/ /\ IsStable(n, number, pendingCheckpoints[n])
           /\ UNCHANGED <<checkpointVars, log, sequenceNumber, store, mainLoop>>
        \/ /\ ~IsStable(n, number, pendingCheckpoints[n])
           /\ ~IsStable(n, number, pending)
           /\ pendingCheckpoints' = [pendingCheckpoints EXCEPT ![n] = pending]
           /\ UNCHANGED <<lastCheckpoint, log, sequenceNumber, store, mainLoop>>
        \/ /\ ~IsStable(n, number, pendingCheckpoints[n])
           /\ IsStable(n, number, pending)
           /\ Checkpointed(n, [number |-> number, snapshot |-> pending[number].snapshot],
                           pending, queue)

-----------------------------------------------------------------------------
\* What no checkpoint action changes.
checkpointFrame == <<viewNumber, issuedSequenceNumber, requests, changeVars, leaderVars,
                     down, normalMessages, changeMessageVars>>

\* A Checkpoint RPC.  One for a checkpoint that is stable already is dropped.
handleCheckpoint(packet) ==
    LET n == packet.to
        message == packet.message
    IN
    /\ Delivered(packet, "Checkpoint")
    /\ ~IsStable(n, message.number, pendingCheckpoints[n])
    /\ handleCheckpointNoValidation(n, message, snapshots[n])
    /\ inFlight' = inFlight \ {packet}
    /\ UNCHANGED <<checkpointFrame, timerArmed, snapshots, sentCheckpoints, rpcs>>

\* The main loop takes a snapshot, which lets go a KeyNode blocked on the next.
handleRecvSnapshot(n) ==
    LET message == [number |-> Head(snapshots[n]).number,
                    snapshot |-> Head(snapshots[n]).snapshot, node |-> n]
    IN
    /\ Running(n) /\ snapshots[n] # <<>>
    /\ handleCheckpointNoValidation(n, message, Tail(snapshots[n]))
    /\ snapshots' = [snapshots EXCEPT ![n] = Tail(@)]
    /\ sentCheckpoints' = sentCheckpoints \cup {message}
    /\ inFlight' = inFlight \cup Broadcast("Checkpoint", n, message)
    /\ UNCHANGED <<checkpointFrame, timerArmed, rpcs>>

\* The handler of a CheckpointProof heartbeat; `rpcs' is its caller's.
handleCheckpointProof(n, proof) ==
    /\ timerArmed' = [timerArmed EXCEPT ![n] = @ \/ ~IsPrimary(n)]
    /\ Checkpointed(n, proof, pendingCheckpoints[n], snapshots[n])
    /\ UNCHANGED <<checkpointFrame, snapshots, sentCheckpoints, inFlight>>

\* tryCheckpoint, in a node whose sequence number and store have become these.
tryCheckpoint(n, number, applied) ==
    snapshots' = [snapshots EXCEPT ![n] =
        IF number % CHECKPOINT = 0
        THEN Append(@, [number |-> SlotId(viewNumber[n], number), snapshot |-> applied])
        ELSE @]

=============================================================================
