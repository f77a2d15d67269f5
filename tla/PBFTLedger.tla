------------------------------ MODULE PBFTLedger ------------------------------
(***************************************************************************)
(* While no node leaves view 0, a cluster of PBFT nodes is a Ledger: votes,*)
(* messages, water marks and heartbeats only decide which of its steps may *)
(* be taken, and when.                                                     *)
(***************************************************************************)
EXTENDS PBFT

FirstView(s) == SlotId(0, s)

\* No node has entered another view.
InFirstView == \A n \in Nodes : viewNumber[n] = 0

ProposedFor(s) == {pp \in sentPrePrepares : pp.number = FirstView(s)}

RequestOf(proposals) ==
    IF proposals = {} THEN Nil ELSE (CHOOSE pp \in proposals : TRUE).request

\* The request the primary of view 0 has given each number.
Chosen == [s \in 2..MaxSeq |-> RequestOf(ProposedFor(s))]

KnownNumbers == [n \in Nodes |-> {s \in 2..MaxSeq : log[n][FirstView(s)].request # Nil}]

ExecutedNumbers == [n \in Nodes |-> {s \in 2..MaxSeq : log[n][FirstView(s)].committed}]

LastStable == [n \in Nodes |-> lastCheckpoint[n].number.seqNumber]

\* Snapshots of a key store in the channel to the main loop.
InChannel(queue) == {queue[i] : i \in DOMAIN queue}

\* A snapshot of a checkpoint is in the channel of its KeyNode, or has been signed.
SnapshotsTaken ==
    {[number |-> m.number.seqNumber, snapshot |-> m.snapshot] :
        m \in sentCheckpoints \cup UNION {InChannel(snapshots[n]) : n \in Nodes}}

Halted == [n \in Nodes |-> ~Running(n)]

L == INSTANCE Ledger WITH
        chosen   <- Chosen,
        known    <- KnownNumbers,
        executed <- ExecutedNumbers,
        reached  <- sequenceNumber,
        stable   <- LastStable,
        taken    <- SnapshotsTaken,
        halted   <- Halted

\* In a cluster that stays in view 0 every handler is a step of the Ledger, or
\* none: what a node executes was proposed under that number, what it replaces
\* its key store by is a checkpoint's snapshot, and it goes back to nothing
\* older than the last one (handleCommit, checkpointed).
RefinesLedger == L!LedgerSpec

=============================================================================
