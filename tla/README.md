# Verification of distributePKI

TLA+ models of distributePKI: the PBFT cluster, the key servers on top of it and the
RPC transport under it, the TLC runs that check them on small instances, and TLAPS
proofs for instances of every size.
The source is Go, under `src/pbft` (consensus) and `src/distributepki` (the key
server on top of it). Paths below are relative to the repository.

## 1. The system

A cluster is a fixed list of nodes. Each process runs a **KeyNode** (HTTP API, key
store) on top of a **PBFTNode** (consensus), joined by Go channels; PBFTNodes call
one another over `net/rpc`.

| component | state it keeps | operations |
|---|---|---|
| PBFTNode, normal case (`node.go`) | `log` of slots, `viewNumber`, `sequenceNumber` (executed), `issuedSequenceNumber` (proposed), `requests` seen | `handleClientRequest`, `handlePrePrepare`, `handlePrepare`, `handleCommit` |
| PBFTNode, checkpoints (`checkpoint.go`) | `lastCheckpoint`, `pendingCheckpoints` | `tryCheckpoint`, `handleRecvSnapshot`, `handleCheckpoint`, `handleCheckpointProof`, `checkpointed` |
| PBFTNode, view changes (`view_change.go`) | `viewChange` (in progress, view, last message of each peer), `newView` | `startViewChange`, `handleViewChange`, `handleNewView`, `enterNewView` |
| PBFTNode, heartbeats and timers (`node.go`) | `caughtUp` of each peer, ticker of the primary, timer of a backup | `sendHeartbeat`, `heartbeatMessage`, the `after` callbacks, `handleHeartbeatTimeout` |
| debug switch (`pbft/debug.go`) | `down` | `Debug`: down, up, put |
| KeyNode (`keynode.go`), key store (`keystore.go`) | map of keys, `pendingRequests` (HTTP requests that wait for a commit) | `CreateKey`, `UpdateKey`, `LookupKey`, `waitForCommit`, `handleCommit`, `respondPendingRequest`, `handleSnapshotRequest`, `handleSnapshot` |
| RPC transport (`util/shared.go`, `broadcast`, the RPC methods) | one goroutine for each message and peer, one at the receiver for each call | `SendRpc`; `PrePrepare`, `Prepare`, `Commit`, ... |
| signatures, message forms (`signing.go`, `messages.go`) | none, but they read the maps of the message when they run | `Sign`, `SignatureValid`, `MarshalJSON` of four map types |
| client operations (`clientapi`) | none | digests and signatures of operations |
| `main.go`, debug REPL, mock authority, `kvstore.go` | none that matters here | start-up, terminal, test service, unused Raft store |

**How they interact.** One goroutine per node, `handleMessages`, selects among the
channels the RPC methods fill, the timers, and the snapshots of the KeyNode; a
handler runs to its end before the next message. What runs beside it: the RPC
methods (on a *copy* of the node, since they have value receivers), a goroutine for
each message sent, the callbacks that store heartbeat answers, and the KeyNode's
`handleUpdates`, to which the main loop gives committed requests, snapshot requests
and snapshots over unbuffered channels. The KeyNode returns a snapshot through a
channel with room for one.

**What is hard.** Packets are lost, late and out of order, and nothing is sent again
except by heartbeats; votes are counted in a slot before its request is known; a
slot is executed as soon as it is committed, whatever comes before it; the answer to
a heartbeat is older than its handling; the NewView is repeated and the view-change
message is not; two goroutines give each other things over channels without room; an
HTTP handler says that it waits only after it has proposed; a call may time out while
its method is still blocked; a goroutine encodes a map that the main loop writes to.
`PROJECT.json` lists each such hazard at its line.

**What makes each part correct.**
- Normal case: in one view no slot holds two requests; nobody commits without a
  proposal and 2f prepares behind it; no operation is applied twice.
- Checkpoints: what a node relies on was signed by 2f+1 nodes; the last checkpoint
  never moves back; the node has reached it; old votes change nothing.
- Heartbeats: the primary never believes a peer further than it is, and sends again
  only what it proposed.
- View changes: a view is announced by its leader and only when enough others asked;
  it re-proposes only what was prepared; a changing node takes no part meanwhile;
  neither views nor, within a view, what was executed go back.
- Key nodes: a client told of success has its operation in the key store; the update
  loop waits for no handler for good, and a handler that has proposed ends; a key is
  replaced only by an update it has signed.
- Transport: a message is handled once or never, and a sender that is told of no error
  knows it is handled, or, of a client request, that it is in the receiver's channel;
  honest messages are accepted; every sending goroutine ends.
- The whole: all nodes apply the same operations in the same order; what was asked for
  comes about as long as enough nodes are up and heard.

## 2. Modules

    PBFTState        constants, messages, quorums, variables, TypeOK, Init
      PBFTCheckpoint   checkpoint.go, and the KeyNode behind the channels
        PBFTNormal       client requests, the three phases, the debug switch
          PBFTViewChange   view_change.go
            PBFTHeartbeat    ticker, heartbeat RPCs, the backup's timer
              PBFT             Next, Spec, the safety properties
                PBFTLedger       view 0 is a Ledger (refinement mapping)
                  PBFTProgress     fairness, the liveness properties
                    MCPBFT           values for the constants, network scenarios
                PBFTTypeProofs   TypeOK is an invariant
                  PBFTCertificateProofs   nobody commits, or trusts a checkpoint, on its own authority
                    PBFTAgreementProofs     agreement in view 0, what is resent
                      PBFTViewProofs          view changes, what a primary relies on
                        PBFTLedgerProofs        view 0 is a Ledger, nothing is applied twice;
                                                what the first NewView carries on
                                                (EXTENDS PBFTLedger too)

    Ledger           what PBFT promises to the key stores in view 0
      LedgerProofs     what every implementation of it inherits
      KeyNode          HTTP handlers and the update loop, on top of a Ledger
        MCKeyNode        values for the constants
        KeyNodeProofs    types, waiters, what a client is told (EXTENDS LedgerProofs too)

    Delivery         the network as the PBFT modules assume it
    Transport        dial, call, timeout, RPC methods, maps shared with the main loop;
                     implements Delivery
      MCTransport      values for the constants
      TransportProofs  what is rejected, and the refinement

Each module EXTENDS the one above it because its handlers call those of the other
(`handleCommit` calls `tryCheckpoint`, `handleNewView` calls `handlePrePrepare`).
`PBFT` composes them: its `Next` is the select statement of `handleMessages`, with
one disjunct per channel, and the progress of heartbeat RPCs. Every operator that
models code bears the name of the Go function where there is one; `PROJECT.json`
maps each to its lines. The three parts meet in two abstract specifications: PBFT in
view 0 implements `Ledger`, on which `KeyNode` is built; `Transport` implements
`Delivery`, which is the network `PBFTState` has in `inFlight` and `rpcs`.

**State.** A variable is a function from nodes to what the Go field holds.

- `log` is total: a slot that `ensureMapping` has just created differs in nothing
  from an absent one, so absent slots are `EmptySlot`. Of the votes in a slot only
  the senders are kept, because the code reads nothing else of them: a vote with
  another digest is logged as an error and counted all the same. `prepared` is not
  kept (it is set exactly when the node's own commit is among the commits), nor is
  `preprepare` (non-nil exactly when `request` is).
- The digest of a request is the request: SHA-256 is taken to be injective. A slot
  keeps both, since the two can differ (`WithAccepted`).
- A snapshot of the key store is the sequence of operations applied to it.
- `inFlight` holds broadcast packets, one for each peer, until they are handled. A
  packet that never is handled is lost; packets are handled in any order. A packet
  whose RPC was accepted before its receiver went down is marked `accepted` and
  still reaches the main loop.
- `rpcs` holds heartbeat RPCs, in the stages *sent*, *arrived* (the receiver's
  sequence number is copied for the answer), *replied*, and *orphan* (the sender has
  stopped waiting).
- `sent...` variables are history: nothing but properties and proofs reads them.
- `mainLoop` is `panicked` after a nil dereference (the process is dead) and
  `blocked` when the main loop gives something to a KeyNode that itself waits for it.
- `snapshots` has at most two elements: one in `recvSnapshotChannel`, one in the hand
  of the KeyNode that waits for room.

**Actions.** A handler is one action, with everything it calls. A handler that
returns at once and changes nothing (the node is changing view, a checkpoint is
stable already) is not enabled: its packet stays in `inFlight`, which is to lose it,
or to handle it later, as a slow network would. Signature checks are left out:
honest nodes sign what they send, and no node lies in these models, which study
crashes, silence and reordering. `Timeout` may fire whenever the timer is armed: no
bound on message delay is assumed. `AnnounceView` contains the immediate
`sendHeartbeat` at the end of `handleViewChange`. Starting a view change for view
`v + 1` stops at `MaxView`, a bound.

`handleNewView` passes `&preprepare`, the address of its loop variable, to
`handlePrePrepare`, which keeps the address of its request. Before Go 1.22 the loop
has one variable, so after it every slot it has filled holds the request of the last
pre-prepare visited. The repository has no `go.mod` that could ask for the later
semantics, so `WithAccepted` models the former.

**Ledger and its refinement.** `Ledger` has no messages and no votes: the primary gives
each request the next number, once; a node learns of requests, executes numbers in any
order, each once (in vain if it does not know the request), takes snapshots at the
checkpoints and trusts one of those taken. `PBFTLedger` maps `log`, `sequenceNumber`,
`lastCheckpoint`, the snapshots on their way, and `mainLoop` to its variables, and
`RefinesLedger` is the abstract specification under that mapping. Two things in
`Ledger` are there because the code does them: the number of the trusted snapshot
itself may still be executed (`commit.Number.Before(...)`, `node.go:541`), so that the
one operation may be applied twice, and a trusted snapshot makes a node forget *some*
of the numbers up to it (the log is flushed through the wrong list,
`checkpoint.go:30`). `Halt` stands for a dead or blocked main loop, which can stop in
the middle of a handler: what the node has said of itself is then anything of its type.
Later views are outside of it: `number_reused` shows that
there the promise is not kept.

**KeyNode.** A handler of POST or PUT is a process with a step for each thing that
others can come between: `Receive` (the `down` flag, the checks against the store there
is now), `Propose` (blocks while `requestChannel` is full), `Register`, `Answer` (a
response or ten seconds), `Leave`. The update loop is `handleCommit`,
`respondPendingRequest` (looks the waiter up) and `Send` (puts the response into its
channel). A snapshot is asked for by the main loop right after the commit, over
channels without room, so nothing comes between execution and snapshot and one step
does for both. `TakeRequest` and `ClientRequest` are the way a request takes through
the consensus node, with its duplicate check; the rest of consensus is `Ledger`. The
digest of an operation is the operation. GET only reads, and has no action.

A main loop may come to an end, in the two ways the PBFT modules show. `Blocks`: it and
the update loop wait for each other for good, while HTTP handlers and RPC methods go on
and fill `requestChannel`. `Dies`: the process ends, with its handlers and channels.
The code blocks only after three checkpoints in a row; `Blocks` may happen between any
two commits, so that a few requests are enough to see what follows from it.

**Transport.** One call is one message to one peer: `Sign`, in a handler of the main
loop; then, in the goroutine, `Dial`, `Call`, and `Returns` or `TimesOut`; at the peer
`Arrives` (the method, on its copy of the node), `Take` (the main loop has the message,
and the method returns) and the handler that runs then. The method of a client request
is different: it returns as soon as the request is in `requestChannel` (`Buffer`), from
where the main loop takes it later, or never (`TakeRequest`).

Four kinds of message are told apart, by what they have to do with the maps that a
message shares with the main loop. A *view change* holds, for each slot prepared, the
slot's own map of prepares (`view_change.go:145`), under the slot's number; a *NewView*
holds the map of view changes itself (`view_change.go:75`); a *prepare* is written to the
first of these maps, as a view change is to the second; a *client request* has the
channel with room. The others go the same way and touch none of the maps. So `Votes`, what
a message says, may grow after `Sign` and before `Call`, and a write while a goroutine
encodes the map may be the end of the process (`Writes`). The signature of a view
change is checked against what was decoded; that of a NewView is not, since the check is
commented out (`view_change.go:97-106`). `Forms` gives the JSON forms of a map with
integer keys: `string(k)` makes the character of code `k`, and everything that is no
character becomes U+FFFD, so that from 55296 on keys run together and the order of
iteration decides which entry is left.

`Progress` and `Outcome` map a call to the states of `Delivery`. What `PBFTHeartbeat`
calls *arrived* is *accepted* there, and a broadcast packet marked `accepted` is the
same; an RPC that times out before it arrives can in the PBFT modules be taken to time
out later, since nothing reads the difference. No handler reads the outcome of a client
request, so the PBFT modules need not keep it.

## 3. Runs

Each run is `tlc -config <name>.cfg <module>`. In the runs of `MCPBFT` a scenario
(`Links`) names the pairs of nodes between which packets of each kind *may* get through;
without fairness each of them may still be lost, late or overtaken. The pairs left out
are part of the bound: they keep an instance small while the scenario that a property
is about stays possible. No run takes much more than two minutes on two cores.

| run | module | nodes and bounds | checks |
|---|---|---|---|
| `checkpoints` | `MCPBFT` | 4, n3 hears checkpoints only; 1 request from two clients, a checkpoint every 2 numbers | `CommitCertificate`, `CommittedCertificate`, `CheckpointCertificate`, `PendingAfterStable` |
| `catch_up` | `MCPBFT` | 3, n3 hears pre-prepares, commits and heartbeats; 2 requests, a checkpoint at each number | `AgreementInFirstView`, `AppliedOnce`, `RefinesLedger`, `ReachedCheckpoint`, `CheckpointMonotonic`, `CaughtUpBehindPeer`, `ResentAsProposed` |
| `view_change` | `MCPBFT` | 5, n5 may go down; 1 request, views 0 and 1, NewView repeated | `TypeOK`, `ViewCertificate`, `ReproposalCertificate`, `QuietWhileChanging`, `ProgressMonotonic`, `DownAsksForNoView`, `CommitsCarriedOver` |
| `new_view` | `MCPBFT` | 5, n1 not heard; views 0 and 1, fair | `ChangesEnd` |
| `progress` | `MCPBFT` | 4, n3 hears heartbeats only; 1 request, fair | `CatchesUp` |
| `key_node` | `MCKeyNode` | 2 key nodes, 2 clients of the backup, which may go down, block or die; a create and an update; 1 place for proposals, 2 for responses; fair | `TypeOK`, `CommittedMeansApplied`, `NoStaleWaiter`, `UpdatesGoOn`, `EveryRequestAnswered` |
| `transport` | `MCTransport` | 3 nodes, one may go down; 4 calls: a view change (with small or large numbers), a NewView, a prepare, a client request; 1 place in `requestChannel`; fair | `RejectedForCause`, `RefinesDelivery`, `EveryCallEnds` |

What the harder properties say:

- `RefinesLedger`: as long as nobody leaves view 0, *every* step of every handler, with
  lost, late and repeated messages, is a step of `Ledger` or changes nothing there.
- `AppliedOnce`: as long as every node is in view 0, no node executes an operation its
  store has, but for that of the last checkpoint's own number, the exception named above.
- `CheckpointCertificate`: the checkpoint a node trusts was signed by 2f+1 nodes, and its
  snapshot is that of one of them. Not of all: votes are counted by number, and the
  snapshot of the first is kept.
- `CommittedMeansApplied`: a client that is told of success has its operation in the key
  store of the node it asked, or that store was replaced by a snapshot of a number at or
  after the operation's. A commit that comes before its request must not count.
- `ReproposalCertificate`: what a NewView proposes again was proposed, and prepared by
  2f nodes, under its number in *some* view. Not in an earlier one: a leader may lead a
  lower view than it asked for, with proofs of higher ones.
- `CommitsCarriedOver`: the first NewView proposes again, with its number and request,
  every slot of view 0 that a node has committed to, if the leader has a view change of
  that node and no checkpoint it knows of covers the slot. It takes a proof in every view
  change for every commit the node ever sent, whatever was flushed in between. Whether
  the leader has heard of *some* committer is a matter of the quorums (section 4).
- `ProgressMonotonic`: no node goes back to an earlier view, and none forgets what it has
  executed in a view, unless its own view change ends in a view it leads (the same
  exception: that view may be a lower one, or the one it is in).
- `ChangesEnd`: a node that has asked for a view and hears the view's leader gets out of
  the change, though the view change is sent once and the NewView may be lost. The
  leader is included, so it can also not be left with enough votes that it never
  counts. It is claimed only for nodes that hear the leader: of a silent leader nobody
  gets rid, since a changing node has stopped its timers.
- `CaughtUpBehindPeer`: the number the primary has for a peer is one the peer has reached.
  It is not that the peer has the slots up to there: a commit that comes before its
  pre-prepare makes a node claim a slot it lacks.
- `CatchesUp`: a backup that missed a request gets it *into its key store* by heartbeats
  alone, without checkpoint or view change: it is sent the pre-prepare again, and its late
  prepare makes the others commit again. The exception is stated: a backup that gets a
  commit quorum before the pre-prepare executes nothing, claims the number and is sent
  nothing again (`ExecutedInVain`). Without it the property is violated, in this
  instance too.
- `UpdatesGoOn`: a response channel with room is enough that the update loop waits for no
  handler for good, though handlers register late, take one another's place and leave
  before their response comes.
- `EveryRequestAnswered`: a handler that has proposed ends, by the ten seconds of
  `waitForCommit`, whatever becomes of consensus. One that has yet to propose ends
  unless its node's main loop has halted: behind a blocked one `requestChannel` fills
  and `Propose` has no time limit.
- `RefinesDelivery`: goroutines, timeouts, blocked methods and the channel with room add
  up to a network in which a message is handled once or never, and no error means handled,
  or, for a client request, accepted.
- `RejectedForCause`: of what honest nodes send, only view changes are ever rejected, and
  only with numbers beyond 55295 or with a prepare that was counted after they were
  signed.

Why these sizes. Four nodes are the smallest cluster that tolerates a failure, and
one node cut off is the failure it tolerates. Five is the size of the repository's
`cluster.json`, and the smallest where the leaders of views 0 and 1 differ (with four
nodes the hash gives both views to the same node), so view changes are checked with
five. Three nodes make the commit and checkpoint quorums so small that a second
checkpoint, on top of a first, comes within reach of a full search; what the run
checks (that late news of an old checkpoint undoes nothing, that no operation is
applied twice) does not depend on the quorum. `CHECKPOINT` is 1 to 4 instead of 100 for
the same reason. Two requests are enough for one slot to be given to two of them.
Symmetry (the two requests in `catch_up`) is over values that no constant of the
instance distinguishes. Two handlers are the fewest that can take each other's place,
and one place for proposals the fewest that fill up: a full channel is then common.
Only the backup trusts snapshots of checkpoints there (`Trusting`): the clients ask it,
and what it has executed is what their answers are about.
Two responses are more than any handler gets (its operation is executed once or, by the
exception, twice); the mutant with no room shows what the room is for. Only
the backup's main loop may block or die there (`Halting`). The four calls of the transport
are the fewest that write to both shared maps while they are sent, and one place in
`requestChannel`, with a node that goes down and dies, lets its methods be refused,
blocked and cut off in every order; the numbers lie on both sides of each border of
`Character`. A primary has one heartbeat RPC at a time, and in `catch_up` those
timed out, still on their way, beside it; with two the search does not end in
reasonable time, so that answers overtake one another is covered by the theorem
`CaughtUpBehindPeerHolds` alone.

`CHECK_DEADLOCK FALSE`: a bounded instance stops once its packets have been handled
and its bounds are reached; there is nothing else it could do. The deadlock the code
itself can run into is a property, `NeverBlocks`.

**Disagreements.** Five runs check a claim of a document or comment that the code does
not keep; TLC shows how.

| run | property | the claim, and what happens |
|---|---|---|
| `different_orders` | `Consistency` | `docs/design.md:7`, no two sets of keys. Slots are executed as they commit, so two nodes can apply two operations in two orders. |
| `number_reused` | `OneRequestPerNumber` | The same, across views. With five nodes a commit quorum is 2 (`2 * (4 / 3)`) and a view change needs 2: the two need not meet, so view 1 can give a committed request's number to another. |
| `commit_blocks` | `NeverBlocks` | `node.go:197`, "buffer to prevent deadlock". With one snapshot in the buffer and one in the KeyNode's hand, the next commit blocks both goroutines for good. |
| `heartbeat_panic` | `NeverPanics` | `node.go:652-654`, a stale `caughtUp` is harmless. The primary looks up the slot after the peer's number, which it may not have, and dies. |
| `key_replaced` | `Continuity` | `docs/design.md:8`, a key changes only by a proposal its owner has signed. Of two creates of one alias, both checked before either is committed, the second replaces the first's key. |

Eight more of that kind were seen while modelling and are steps of the models, without a
run: the second loop of `checkpointed` (`checkpoint.go:30`) ranges over the list of
pending checkpoints instead of the log's, so most of the log is never flushed; a node that
commits a slot without its pre-prepare reports a sequence number that hides the gap from
the primary, and signs checkpoints whose snapshot lacks the operation; a leader may lead a
view lower than the one it has asked for, or its own view again, and then forgets what it
has executed there (`view_change.go:62-63`); a request that a node has executed in view 0
and that is proposed again in view 1 is executed again, since its slot there is a new one;
the aliased loop variable of `handleNewView` gives a slot the request of another
pre-prepare; the retry loop of `SendRpc` never retries (`shared.go:30`); the signature of
a NewView is never checked (`view_change.go:97-106`); and the timeout given to `sendRpc`
is dropped (`node.go:803`).

**Mutants.** For each property of a passing run there is a changed form of one
definition (the quorum that counts the leader's own view change, the vote that is
flushed one too late, the NewView entered twice) under which the same run finds the
property violated. Each is defined just above the definition it replaces.

**Fairness.** `Spec` states none in any module; the liveness runs use `FairSpec`.

- `PBFTProgress`: weak fairness of the main loop's handlers (`LoopFairness`): a `select`
  takes what its channels have, and a timer that is armed fires. For a broadcast packet
  this includes its delivery, which the code cannot enforce; it is the assumption that
  linked nodes are up and reachable, and why `ChangesEnd` says nothing of a view change
  that is lost. For heartbeats, which the code repeats, less is assumed
  (`HeartbeatFairness`): the ticker ticks, each RPC ends by its timeout, and of the
  RPCs to one peer infinitely many arrive and are answered if infinitely many could
  (strong fairness for each peer, not for each RPC). Nodes stay up in these runs.
- `KeyNode`: a handler goroutine that can go on does; a main loop that has not halted
  takes what is in `requestChannel`; the update loop does what it has begun. No client has
  to ask anything, and neither learning, committing nor the debug switch is fair: a
  request need never be committed and is answered all the same.
- `Transport`: the sending goroutine goes on. That its dial ends is the operating
  system's promise; that its wait ends is the timeout's. Nothing is assumed of the
  receiver: its method may be blocked for good, and a
  request may stay in its channel.

## 4. Proofs

The proofs assume what the `ASSUME`s of `PBFTState`, `Ledger`, `KeyNode` and
`Transport` say of the constants: finitely many nodes, positive bounds, a leader for
each view, a capacity of at least one. They hold for every number of nodes, views,
sequence numbers, requests, handlers and calls, and for every scenario.

- `PBFTTypeProofs`, `TypeCorrect == Spec => []TypeOK`. `TypeOK` is inductive as it
  stands; one lemma for each handler, and lemmas for the operators they share.
- `PBFTCertificateProofs`, `CommitCertificateHolds` and `CommittedCertificateHolds`.
  That 2f nodes have prepared what a commit names is not inductive: a node does not
  look at what was sent, it counts the votes in its slot. `CertificateInv` therefore
  adds that every slot is *backed* (its votes were sent, its request was proposed),
  and that so is every packet, NewView and heartbeat on its way to a slot. Messages
  are only ever added, so a backed slot stays backed until a checkpoint clears it.
  `handlePrepare` then sends a commit only for a slot whose 2f prepares are among
  those sent. All the conjuncts were model-checked, on the instances of the runs,
  before they were proved.
- `PBFTCertificateProofs` also has `CheckpointMonotonicHolds`, `PendingAfterStableHolds`,
  `ReachedCheckpointHolds` and `CheckpointCertificateHolds`. Their invariant,
  `CheckpointInv`, says that pending votes were sent and are for checkpoints after the
  last stable one, that the last stable checkpoint was signed by a quorum, its snapshot by
  one of them, or is the initial one, that the same holds of every proof on its way in a
  heartbeat, and that a running node's sequence number has reached it. A blocked node is
  the exception: the main loop stores the checkpoint before it waits for the KeyNode. Its
  conjuncts, too, were first model-checked on the instances of four of the runs. The
  action property needs only the types: `checkpointed()` is the one place that stores a
  checkpoint, and it returns early when the node has passed the one it is given.
- `PBFTAgreementProofs`, `AgreementInFirstViewHolds` and `ResentAsProposedHolds`. That
  two nodes hold one request in a slot is not inductive, for a node learns it from a
  packet, from a heartbeat, or by proposing it. `AgreementInv` says that of the
  pre-prepares ever sent for view 0 each is signed by its leader and no two have one
  number, that a request in a slot of view 0, on its way to one or about to be resent
  was one of these, and, which is what keeps the numbers apart, that every number the
  primary has given is at most the one it issued last. It issues only above that, as long
  as it is in view 0; and a node that changes view goes to a later one, so what a new
  primary proposes never counts for view 0.
- `PBFTViewProofs`, `ViewCertificateHolds`, `ProgressMonotonicHolds`,
  `QuietWhileChangingHolds` and `DownAsksForNoViewHolds`. A leader counts messages, not
  nodes. `ViewInv` says that it keeps one message of each peer, and that this was sent;
  that every NewView sent was announced by its leader, and every one on its way or kept
  to be repeated was sent; and that a view change leads to a later view than the node's
  own, which is what makes views grow. The action properties follow handler by handler:
  a changing node's guards turn away everything but checkpoints.
- `PBFTViewProofs` also has `ReproposalCertificateHolds` and `CaughtUpBehindPeerHolds`.
  `ReproposalInv` says that the proofs in every view change are backed in the sense of
  `CertificateInv`, and so is all that a NewView proposes again, since a leader uses only
  messages that were sent (`ViewInv`). `BeliefInv` says that the answers to heartbeats,
  in every stage of their RPC, say no more than their sender has executed, as long as it
  is in view 0.
- `LedgerProofs`, `LedgerInvariant` and `LedgerAppliesOnce`: what an implementation of
  `Ledger` inherits. `LedgerInv` says where the operations of a store come from: each is
  that of a number the node remembers to have executed, or of one up to the snapshot it
  trusts (`StoreExecuted`), and no operation has two numbers (`ChosenOnce`). A snapshot
  makes the node forget what it has executed, so two more parts are needed: a node that
  has not halted has executed nothing beyond its reach (`WithinReach`), and a snapshot
  holds only operations of numbers up to its own (`SnapshotsBefore`). An operation that is
  applied again therefore has the number it had the first time, which the node has
  forgotten, and is executed only because it is the snapshot's own.
- `PBFTLedgerProofs`, `RefinesLedgerHolds == Spec /\ []InFirstView => RefinesLedger`
  and `AppliedOnceHolds`. Under the mapping of `PBFTLedger` each
  handler is shown to be a step of `Ledger` or none, one lemma each, from what the earlier
  invariants say of the cluster (`ClusterInv`) and from `FirstViewFacts`: the primary of
  view 0 has proposed exactly the numbers up to the last it issued, each for a request it
  has marked as seen, none twice; what a node has committed was proposed; every
  checkpoint is one of view 0 and nobody has announced another view. These facts hold
  only until somebody enters another view, which nobody leaves for view 0 again: so the
  invariant, `FirstViewInv`, is that they hold as long as `InFirstView` does, and the
  refinement is claimed of the behaviours that stay there. The largest step is
  `checkpointed`, which stores a snapshot, flushes the log and may block, all in one
  handler. Where `MaxView` is 0, as in `catch_up`, the condition holds of every
  behaviour. `AppliedOnceHolds` has no condition, since the property itself is about steps
  before the first view change: `FirstLedgerInv` is the invariant of `Ledger` under the
  mapping, kept until then, and the step of `LedgerAppliesOnce` does the rest.
- `PBFTLedgerProofs` also has `CommitsCarriedOverHolds` and `CommittedCarriedOverHolds`.
  While there is no NewView the cluster is in view 0, so `FirstViewFacts` hold, and with
  them `CarryingFacts`: a slot that a node has committed to is prepared there, or not
  after its last checkpoint (a prepared slot loses neither its request nor votes until
  a checkpoint clears it, and the primary reuses no number); a node that has asked for a
  view goes on asking, and commits to nothing meanwhile; so each view change ever sent
  has a proof, with the request the primary proposed, of all its node has committed to
  after the checkpoint it names, and it commits to nothing later in view 0.
  The leader takes the highest proof of a number, and in view 0 all are as high. The
  second theorem is about what any node has *marked* committed: `QuorumsMeet` shows that
  the 2f committers and the voters a leader waits for have a node in common exactly in a
  cluster of 7 nodes, or of 10 or more, and there the request chosen for the number
  (`Chosen`, of the refinement) is carried on. In the five nodes of `cluster.json` they
  need not meet, which is what `number_reused` shows.
- `KeyNodeProofs`, `KeyNodeTypeCorrect`, `NoStaleWaiterHolds` and
  `CommittedMeansAppliedHolds`. What the key nodes do to consensus are steps of `Ledger`,
  the end of a main loop a `Halt` that changes no store, so `LedgerInv` holds, and what a
  node has applied stays in its store or in the snapshot it trusts (`StaysApplied`).
  `KeyInv` follows an operation from there to the client: what a handler has been past
  `Receive` is its own (`Submitted`), an entry of `pendingRequests` belongs to a handler
  that waits there for that operation (`NoStaleWaiter`), what the update loop is about to
  respond to is applied at its node (`ApplyingApplied`), it responds only to a handler of
  that node and operation (`Responds`), and so is every response in a channel or on its
  way to the client (`Informed`). A process that dies takes its waiters and what the
  update loop had in hand with it, so none of this is left behind.
- `TransportProofs`, `RejectedForCauseHolds` and `RefinesDeliveryHolds`. `TransportInv`
  says that a receiver has a call only after its sender has made it (`SenderFirst`), that
  a signature is over a form of the numbers (`SignedForm`), that only what the main loop
  has taken was judged (`JudgedTaken`), and that `requestChannel` holds each request once,
  of its own node, until it is taken (`ChannelHolds`, `BufferedRequest`). `Character` is
  one to one up to 55295, so a map with such numbers has one form only, and a view change
  over the prepares it was signed with is valid. The refinement needs that a sender is
  told *ok* only after the method returned, and that the method returns after the main
  loop took the message, or, for a client request, after it was put into the channel.

The new invariants were model-checked first: `LedgerInv` and `KeyInv` on the instance of
`key_node`, `FirstViewFacts` and the parts of `LedgerInv` under the mapping on that of
`catch_up`, `CommitsCarriedOver` itself on that of `view_change`.

`ReproposalCertificate` and `ProgressMonotonic` are stated more weakly than two views
alone would allow, since they are meant, and proved, for any number of them. `AppliedOnce`
says nothing of the steps after a view change, where the operation of an executed slot
may be proposed, and executed, again.

Only model-checked: the liveness properties `ChangesEnd`, `CatchesUp`, `UpdatesGoOn`,
`EveryRequestAnswered` and `EveryCallEnds`. Liveness under fairness, ENABLED and induction
over data are out of the prover's reach. Every invariant and every action property of a
passing run is a theorem.

## 5. Not modelled

- OpenPGP, SHA-256, gob and `net/rpc` themselves: a signature is valid exactly for its
  form and signer, digests are injective, what is encoded is decoded.
- `UnmarshalJSON` of the map types: never called, since RPCs are decoded by gob. (It
  could not read what `MarshalJSON` writes.)
- JSON forms and digests of client operations (`clientapi`): they decide only which
  operations are the same and who has signed them.
- `main.go`, the REPL, the mock authority: start-up, a terminal, a test service. They
  keep no state after that.
- `kvstore.go`, `blockUntilUp`, `ClientReply`, `requestTimeoutChannel`: nothing uses
  them.
- Data races other than those on the two maps a message shares (`slot.prepares`,
  `viewChange.messages`): `down`, `viewNumber` and
  `sequenceNumber` are read by RPC methods while the main loop writes them (the models
  read them in one step), and `GetSnapshot` reads the key map without its lock, beside
  readers only.
- Time: timers may fire whenever they are armed, so nothing is claimed of how long the
  code waits.
- A process that is started again. It would begin in view 0 with an empty log, and
  nothing in the code is meant for that.
- Nodes that lie. The code has signature and digest checks against them; here every
  node runs the code.

## 6. What is left

- Carrying over in later view changes: a node may have committed in a view it has left
  and entered again, with other requests under the same numbers, so the proofs of one
  number can differ, and more than "the highest view" decides.
- Later views: what a `Ledger` would have to say there is weakened by `number_reused`
  to so little that the disagreement is the result.
