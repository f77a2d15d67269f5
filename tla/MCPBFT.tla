-------------------------------- MODULE MCPBFT --------------------------------
(***************************************************************************)
(* Values for the constants of PBFT.  Which packets the network delivers   *)
(* is the bound that keeps the instances small: a scenario gives the pairs *)
(* of nodes between which messages of each kind may get through, and every *)
(* one of those still may be lost or come late.                            *)
(***************************************************************************)
EXTENDS PBFTProgress, TLC

CONSTANTS n1, n2, n3, n4, n5, a, b, c

\* What ClusterConfig.LeaderFor computes for clusters of 3, 4 and 5 nodes.
Leaders3 == [v \in 0..MaxView |-> <<n2, n1>>[v + 1]]
Leaders4 == [v \in 0..MaxView |-> <<n4, n4, n3, n2>>[v + 1]]
Leaders5 == [v \in 0..MaxView |-> <<n1, n5, n4, n3>>[v + 1]]

Operations == Permutations(Requests)

Among(S) == {link \in S \X S : link[1] # link[2]}

Only(links) == [kind \in MessageKinds |-> IF kind \in DOMAIN links THEN links[kind] ELSE {}]

NormalKinds == {"ClientRequest", "PrePrepare", "Prepare", "Commit"}

-----------------------------------------------------------------------------
(* Four nodes, n4 the primary of view 0. *)

\* n3 is cut off, the failure a cluster of four tolerates.
OneCutOff == Only([kind \in NormalKinds |-> Among({n1, n2, n4})])

\* n3 hears of checkpoints only.
CheckpointsReachAll == Only([kind \in NormalKinds \cup {"Checkpoint"} |->
    IF kind = "Checkpoint" THEN {link \in Among(Nodes) : link[1] # n3}
                           ELSE Among({n1, n2, n4})])

\* Just enough for n2 to commit.
CommitAt2 == Only([kind \in NormalKinds |->
    CASE kind = "PrePrepare" -> {<<n4, n1>>, <<n4, n2>>}
      [] kind = "Prepare"    -> {<<n1, n2>>, <<n2, n1>>}
      [] kind = "Commit"     -> {<<n1, n2>>}
      [] OTHER -> {}])

\* The primary's heartbeats reach n1, and n3 that gets no pre-prepare otherwise.
Heartbeats == Only([kind \in NormalKinds \cup {"Heartbeat"} |->
    CASE kind = "Heartbeat" -> {<<n4, n1>>, <<n4, n3>>}
      [] kind = "PrePrepare" -> {<<n4, n1>>, <<n4, n2>>}
      [] OTHER -> Among({n1, n2, n4})])

\* n4 executes with the votes of n1 and n2; n3 hears of it in heartbeats, prepares,
\* and is sent the commits of n1 and n2, maybe once more.
MissedByOne == Only([kind \in NormalKinds \cup {"Heartbeat"} |->
    CASE kind = "PrePrepare" -> {<<n4, n1>>, <<n4, n2>>}
      [] kind = "Prepare"    -> {<<n1, n4>>, <<n2, n4>>, <<n1, n2>>, <<n2, n1>>, <<n3, n1>>, <<n3, n2>>}
      [] kind = "Commit"     -> {<<n1, n4>>, <<n2, n4>>, <<n1, n3>>, <<n2, n3>>}
      [] kind = "Heartbeat"  -> {<<n4, n3>>}
      [] OTHER -> {}])

-----------------------------------------------------------------------------
(* Three nodes, n2 the primary of view 0: a cluster that tolerates no failure, *)
(* where the commit and the checkpoint vote of one node are enough.            *)

\* n2 commits, makes checkpoints stable, and tells n3 of them in heartbeats; n3 may
\* hear of the commits too, late.
TwoCheckpoints == Only([kind \in NormalKinds \cup {"Heartbeat"} |->
    CASE kind = "PrePrepare" -> {<<n2, n1>>, <<n2, n3>>}
      [] kind = "Prepare"    -> {<<n3, n1>>}
      [] kind = "Commit"     -> {<<n1, n2>>, <<n1, n3>>}
      [] kind = "Heartbeat"  -> {<<n2, n3>>}
      [] OTHER -> {}])

-----------------------------------------------------------------------------
(* Five nodes, n1 the primary of view 0 and n5 that of view 1. *)

\* n2 prepares in view 0; n5 hears two view changes, and its NewView reaches n2 and
\* n3; n2 commits in view 1.
ViewChanges == Only(
    [kind \in NormalKinds \cup {"ViewChange", "Heartbeat"} |->
       CASE kind = "PrePrepare" -> {<<n1, n2>>, <<n1, n4>>}
         [] kind = "Prepare"    -> {<<n4, n2>>, <<n3, n2>>, <<n2, n3>>}
         [] kind = "Commit"     -> {<<n3, n2>>}
         [] kind = "ViewChange" -> {<<n2, n5>>, <<n3, n5>>}
         [] kind = "Heartbeat"  -> {<<n5, n2>>, <<n5, n3>>}
         [] OTHER -> {}])

\* The primary of view 0 is not heard; the others hear n5.
QuietView == Only([kind \in {"ViewChange", "Heartbeat"} |->
    IF kind = "ViewChange" THEN {<<n2, n5>>, <<n3, n5>>, <<n4, n5>>}
                           ELSE {<<n5, n2>>, <<n5, n3>>}])

\* n1 and n4 commit in view 0; the view change is carried by n2, n3 and n5.
LostQuorum == Only(
    [kind \in NormalKinds \cup {"ViewChange", "Heartbeat"} |->
       CASE kind = "PrePrepare" -> {<<n1, n2>>, <<n1, n4>>, <<n5, n2>>, <<n5, n3>>}
         [] kind = "Prepare"    -> {<<n2, n1>>, <<n4, n1>>, <<n2, n4>>, <<n2, n5>>, <<n3, n5>>, <<n3, n2>>}
         [] kind = "Commit"     -> {<<n4, n1>>, <<n2, n5>>}
         [] kind = "ViewChange" -> {<<n2, n5>>, <<n3, n5>>}
         [] kind = "Heartbeat"  -> {<<n5, n2>>, <<n5, n3>>}
         [] OTHER -> {}])

=============================================================================
