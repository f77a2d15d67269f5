----------------------------- MODULE PBFTProgress -----------------------------
(***************************************************************************)
(* What a cluster of PBFT nodes is sure to do in the end, if goroutines    *)
(* are scheduled, nodes stay up, and the network delivers every packet it  *)
(* has a link for.  The RPCs of heartbeats, which are sent again and again,*)
(* may get lost or time out, as long as not all of them do.                *)
(***************************************************************************)
EXTENDS PBFTLedger

\* The main loop takes what its channels and its timers have for it.
LoopFairness ==
    /\ WF_vars(\E packet \in inFlight : PrePrepareReceived(packet))
    /\ WF_vars(\E packet \in inFlight : handlePrepare(packet))
    /\ WF_vars(\E packet \in inFlight : handleCommit(packet))
    /\ WF_vars(\E packet \in inFlight : handleViewChange(packet))
    /\ WF_vars(\E n \in Nodes : Timeout(n))

\* The ticker ticks and the RPCs end; of those to a peer some arrive, are handled
\* and answered.
HeartbeatFairness ==
    /\ WF_vars(\E n \in Nodes : SendHeartbeat(n))
    /\ WF_vars(\E rpc \in rpcs : RpcTimesOut(rpc))
    /\ \A n \in Nodes :
          /\ SF_vars(\E rpc \in rpcs : rpc.to = n /\ RpcArrives(rpc))
          /\ WF_vars(\E rpc \in rpcs : rpc.to = n /\ RpcHandled(rpc))
          /\ SF_vars(\E rpc \in rpcs : rpc.to = n /\ RpcReturns(rpc))

FairSpec == Spec /\ LoopFairness /\ HeartbeatFairness

\* The nodes that know when the leader of a view has announced it.
Hears(n, view) == n = LeaderFor[view] \/ n \in Linked("Heartbeat", LeaderFor[view])

\* A view change comes to its end at every node that hears the new primary, the
\* primary included, though it is asked for once, may be asked for before or
\* after the primary itself gives up, and its NewView may get lost a few times.
ChangesEnd ==
    \A n \in Nodes, view \in 1..MaxView :
        Hears(n, view) /\ changing[n] /\ changeTo[n] = view ~> ~changing[n]

\* The node has marked the slot committed, and executed nothing, before it has the
\* pre-prepare.
ExecutedInVain(n, id) == log[n][id].committed /\ log[n][id].request = Nil

\* README, node recovery, and TestBackupCatchesUp: what the primary has committed gets
\* into the key store of a backup that missed its pre-prepare, without a checkpoint or
\* a view change: the backup is sent it again, and its late prepare makes the others
\* commit again.  That is so if not all their commits come before it; if they do, the
\* backup executes nothing and claims the number, so that nothing is sent again.
CatchesUp ==
    \A p \in Linked("Heartbeat", LeaderFor[0]), s \in 2..MaxSeq :
        LET id == SlotId(0, s)
            proposed == log[LeaderFor[0]][id]
        IN  []~ExecutedInVain(p, id) =>
                (proposed.committed ~> \E i \in DOMAIN store[p] : store[p][i] = proposed.request)

=============================================================================
