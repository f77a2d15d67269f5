----------------------------- MODULE PBFTHeartbeat -----------------------------
(***************************************************************************)
(* Heartbeats and timers (src/pbft/node.go).  The primary's ticker sends   *)
(* each peer one RPC, chosen by what it believes the peer has executed;    *)
(* the answer, handled by a goroutine of its own, is the sequence number   *)
(* the peer had when the RPC arrived.  A backup's timer that runs out      *)
(* starts a view change.                                                   *)
(***************************************************************************)
EXTENDS PBFTViewChange

\* What an RPC's progress leaves alone, but for its own handler.
rpcFrame == <<ledgerVars, changeVars, checkpointVars, newView, timerArmed, down, mainLoop,
              keyVars, normalMessages, sentCheckpoints, changeMessageVars, inFlight>>

-----------------------------------------------------------------------------
(* The primary. *)

\* The slot whose pre-prepare the primary sends again to a peer.
ResendSlot(n, p) == SlotId(viewNumber[n], caughtUp[n][p] + 1)

\* It sends one again when no other heartbeat message will do.
Resends(n, p) ==
    /\ caughtUp[n][p] # 0
    /\ caughtUp[n][p] # sequenceNumber[n]
    /\ caughtUp[n][p] >= lastCheckpoint[n].number.seqNumber

\* heartbeatMessage dereferences a pre-prepare the primary does not have.
HeartbeatPanics(n, p) ==
    /\ Resends(n, p)
    /\ ResendSlot(n, p) \notin SlotIds \/ log[n][ResendSlot(n, p)].request = Nil

ResentAs(n, id, number) ==
    [number |-> number, digest |-> log[n][id].requestDigest,
     request |-> log[n][id].request, signer |-> n]

ResentUnderOldNumber(n, p) ==
    ResentAs(n, ResendSlot(n, p), SlotId(viewNumber[n], caughtUp[n][p]))

Resent(n, p) == ResentAs(n, ResendSlot(n, p), ResendSlot(n, p))

HeartbeatRpc(n, p) ==
    IF caughtUp[n][p] = 0 THEN StartRpc("NewView", n, p, newView[n])
    ELSE IF caughtUp[n][p] = sequenceNumber[n] THEN StartRpc("PrePrepare", n, p, Heartbeat(n))
    ELSE IF ~Resends(n, p) THEN StartRpc("CheckpointProof", n, p, lastCheckpoint[n])
    ELSE StartRpc("PrePrepare", n, p, Resent(n, p))

\* Heartbeat RPCs of n whose sender waits for the answer.
Outstanding(n) == {rpc \in rpcs : rpc.from = n /\ rpc.stage # "orphan"}

\* The ticker fires.  A panic of the main loop kills the process; the peers the
\* loop has visited by then have got their RPC.
SendHeartbeat(n) ==
    LET unsafe == {p \in Peers(n) : HeartbeatPanics(n, p)} IN
    /\ Running(n) /\ IsPrimary(n) /\ ~changing[n] /\ ~down[n]
    /\ Cardinality(Outstanding(n)) < MaxOutstanding
    /\ \/ /\ unsafe = {}
          /\ rpcs' = rpcs \cup {HeartbeatRpc(n, p) : p \in Linked("Heartbeat", n)}
          /\ UNCHANGED mainLoop
       \/ /\ unsafe # {}
          /\ \E visited \in SUBSET (Linked("Heartbeat", n) \ unsafe) :
                rpcs' = rpcs \cup {HeartbeatRpc(n, p) : p \in visited}
          /\ mainLoop' = [mainLoop EXCEPT ![n] = "panicked"]
    /\ UNCHANGED <<ledgerVars, changeVars, checkpointVars, leaderVars, timerArmed, down,
                   keyVars, normalMessages, sentCheckpoints, changeMessageVars, inFlight>>

-----------------------------------------------------------------------------
(* The life of a heartbeat RPC. *)

AnswerAsIfHandled(rpc) ==
    IF rpc.kind = "PrePrepare" THEN Larger(sequenceNumber[rpc.to], rpc.body.number.seqNumber)
                               ELSE sequenceNumber[rpc.to]

Answer(rpc) == sequenceNumber[rpc.to]

\* The receiver copies its state, with the sequence number of the answer.
RpcArrives(rpc) ==
    /\ rpc.stage = "sent"
    /\ mainLoop[rpc.to] # "panicked" /\ ~down[rpc.to]
    /\ rpcs' = (rpcs \ {rpc}) \cup
         {[rpc EXCEPT !.stage = "arrived", !.seq = Answer(rpc)]}
    /\ UNCHANGED <<rpcFrame, caughtUp>>

\* The receiver's main loop takes the message.
RpcHandled(rpc) ==
    /\ rpc.stage \in {"arrived", "orphan"}
    /\ Running(rpc.to)
    /\ rpcs' = (rpcs \ {rpc}) \cup
         IF rpc.stage = "orphan" THEN {} ELSE {[rpc EXCEPT !.stage = "replied"]}
    /\ \/ rpc.kind = "NewView" /\ handleNewView(rpc.to, rpc.body)
       \/ rpc.kind = "PrePrepare" /\ handlePrePrepare(rpc.to, rpc.body, {})
       \/ rpc.kind = "CheckpointProof" /\ handleCheckpointProof(rpc.to, rpc.body)

\* The answer arrives, maybe after the sender's view, or the peer's, has changed.
RpcReturns(rpc) ==
    /\ rpc.stage = "replied"
    /\ mainLoop[rpc.from] # "panicked"
    /\ caughtUp' = [caughtUp EXCEPT ![rpc.from][rpc.to] =
                       IF rpc.kind = "NewView" THEN 1 ELSE rpc.seq]
    /\ rpcs' = rpcs \ {rpc}
    /\ UNCHANGED rpcFrame

\* The sender stops waiting: of an RPC on its way the answer is lost, or all of it.
RpcTimesOut(rpc) ==
    /\ rpc.stage # "orphan"
    /\ rpcs' = (rpcs \ {rpc}) \cup
         IF rpc.stage = "arrived" THEN {[rpc EXCEPT !.stage = "orphan"]} ELSE {}
    /\ UNCHANGED <<rpcFrame, caughtUp>>

-----------------------------------------------------------------------------
(* A backup's timer.  It is not armed again before the next heartbeat, even  *)
(* if it has run out in vain because the node was down.                      *)

Timeout(n) ==
    /\ Running(n) /\ ~IsPrimary(n) /\ timerArmed[n]
    /\ \/ /\ changing[n] \/ down[n]
          /\ timerArmed' = [timerArmed EXCEPT ![n] = FALSE]
          /\ UNCHANGED <<changing, changeTo, sentViewChanges, inFlight>>
       \/ /\ ~changing[n] /\ ~down[n] /\ viewNumber[n] < MaxView
          /\ \/ startViewChange(n, viewNumber[n] + 1, {})
             \/ /\ ~MayStartViewChange(n, viewNumber[n] + 1)
                /\ timerArmed' = [timerArmed EXCEPT ![n] = FALSE]
                /\ UNCHANGED <<changing, changeTo, sentViewChanges, inFlight>>
    /\ UNCHANGED <<ledgerVars, changeMessages, checkpointVars, leaderVars, down, mainLoop,
                   keyVars, normalMessages, sentCheckpoints, sentNewViews, rpcs>>

=============================================================================
