---------------------------- MODULE PBFTViewChange ----------------------------
(***************************************************************************)
(* View changes (src/pbft/view_change.go).                                 *)
(*                                                                         *)
(* A view-change message is broadcast once and never sent again.  The new  *)
(* primary repeats its NewView to each peer as a heartbeat RPC instead.    *)
(***************************************************************************)
EXTENDS PBFTNormal

\* What no action of this module changes.
viewChangeFrame == <<requests, checkpointVars, down, mainLoop, keyVars, sentPrePrepares,
                     sentCommits, sentCheckpoints>>

-----------------------------------------------------------------------------
(* Starting a view change. *)

Highest(x, S) == x \in S /\ \A y \in S : y <= x

Lowest(x, S) == x \in S /\ \A y \in S : x <= y

AcceptedProofs(n) ==
    LET accepted == {id \in SlotIds : /\ Before(lastCheckpoint[n].number, id)
                                      /\ IsProposed(log[n][id])}
    IN  {[number |-> id, digest |-> log[n][id].requestDigest,
          request |-> log[n][id].request] : id \in accepted}

\* generateProofsSinceCheckpoint: the slots, of any view, the node has prepared.
PreparedProofs(n) ==
    LET prepared == {id \in SlotIds : /\ Before(lastCheckpoint[n].number, id)
                                      /\ IsPrepared(log[n][id])}
    IN  {[number |-> id, digest |-> log[n][id].requestDigest,
          request |-> log[n][id].request] : id \in prepared}

IsNewChange(n, view) ==
    /\ changeTo[n] <= view
    /\ ~(changing[n] /\ changeTo[n] = view)

MayStartViewChange(n, view) ==
    /\ ~down[n]
    /\ IsNewChange(n, view)

\* startViewChange past its early return; `done' is the packet that caused it.
startViewChange(n, view, done) ==
    LET vc == [viewNumber |-> view, checkpoint |-> lastCheckpoint[n].number,
               proofs |-> PreparedProofs(n), node |-> n]
    IN
    /\ MayStartViewChange(n, view)
    /\ changing' = [changing EXCEPT ![n] = TRUE]
    /\ changeTo' = [changeTo EXCEPT ![n] = view]
    /\ timerArmed' = [timerArmed EXCEPT ![n] = FALSE]
    /\ sentViewChanges' = sentViewChanges \cup {vc}
    /\ inFlight' = (inFlight \ done) \cup Broadcast("ViewChange", n, vc)

-----------------------------------------------------------------------------
(* Entering a view. *)

\* enterNewView, had it not set the sequence number to 1 first.
ResumeAtCheckpoint(n) == lastCheckpoint[n].number.seqNumber

\* Every node starts the view from its own last stable checkpoint.
ResumeAt(n) == Larger(1, lastCheckpoint[n].number.seqNumber)

enterNewView(n, view) ==
    /\ changing' = [changing EXCEPT ![n] = FALSE]
    /\ viewNumber' = [viewNumber EXCEPT ![n] = view]
    /\ sequenceNumber' = [sequenceNumber EXCEPT ![n] = ResumeAt(n)]
    /\ timerArmed' = [timerArmed EXCEPT ![n] = LeaderFor[view] # n]

\* A heartbeat RPC of n to a peer.
StartRpc(kind, n, p, body) ==
    [kind |-> kind, from |-> n, to |-> p, body |-> body, stage |-> "sent", seq |-> 0]

-----------------------------------------------------------------------------
(* The new primary. *)

\* The proofs for one sequence number among which the map's order decides.
HighestProofs(proofs, s) ==
    {p \in proofs : /\ p.number.seqNumber = s
                    /\ \A q \in proofs : q.number.seqNumber = s =>
                           q.number.viewNumber <= p.number.viewNumber}

\* generatePrepreparesForNewView, without its effect on the node: one pre-prepare
\* for each number from the last stable checkpoint, included, to the last
\* prepared one.  `chosen' is the proof taken for each number that has any.
NewPrePrepares(n, view, minS, maxS, proofs, chosen) ==
    IF minS >= maxS THEN {}
    ELSE {LET hole == HighestProofs(proofs, s) = {} IN
          [number  |-> SlotId(view, s),
           digest  |-> IF hole THEN NoOp ELSE chosen[s].digest,
           request |-> IF hole THEN NoOp ELSE chosen[s].request,
           signer  |-> n] : s \in minS..maxS}

\* Of the new primary only the checkpoint counts: its own proofs are not in V.
StableNumbers(n, messages) ==
    {lastCheckpoint[n].number.seqNumber} \cup {vc.checkpoint.seqNumber : vc \in messages}

NumbersPreparedByAll(messages) ==
    {s \in 0..MaxSeq : \A vc \in messages : \E p \in vc.proofs : p.number.seqNumber = s}

PreparedNumbers(messages) == {p.number.seqNumber : p \in UNION {vc.proofs : vc \in messages}}

\* The log with a fresh slot for each of a set of new pre-prepares.
WithProposed(slots, pps) ==
    [id \in SlotIds |->
        LET mine == {pp \in pps : pp.number = id} IN
        IF mine = {} THEN slots[id]
        ELSE LET pp == CHOOSE pp \in mine : TRUE IN ProposedSlot(pp.request, pp.digest)]

\* The new primary proposes, tells everyone, and enters the view.
AnnounceView(n, view, pps, maxS) ==
    LET nv == [viewNumber |-> view, prePrepares |-> pps, node |-> n] IN
    /\ log' = [log EXCEPT ![n] = WithProposed(@, pps)]
    /\ issuedSequenceNumber' = [issuedSequenceNumber EXCEPT ![n] = Larger(@, maxS)]
    /\ newView' = [newView EXCEPT ![n] = nv]
    /\ caughtUp' = [caughtUp EXCEPT ![n] = [p \in Nodes |-> 0]]
    /\ enterNewView(n, view)
    /\ sentNewViews' = sentNewViews \cup {nv}
    /\ rpcs' = rpcs \cup {StartRpc("NewView", n, p, nv) : p \in Linked("Heartbeat", n)}

LeadNewView(n, view, messages) ==
    LET proofs == UNION {vc.proofs : vc \in messages}
        numbers == PreparedNumbers(messages)
    IN
    \E minS, maxS \in 0..MaxSeq, chosen \in [numbers -> proofs] :
        /\ Highest(minS, StableNumbers(n, messages))
        /\ Highest(maxS, {lastCheckpoint[n].number.seqNumber} \cup numbers)
        /\ \A s \in numbers : chosen[s] \in HighestProofs(proofs, s)
        /\ AnnounceView(n, view, NewPrePrepares(n, view, minS, maxS, proofs, chosen), maxS)

\* The last message of each peer, with a new one taken in whatever its view.
Received(n, vc) == {m \in changeMessages[n] : m.node # vc.node} \cup {vc}

HigherThan(view, messages) == {m \in messages : m.viewNumber > view}

Joins(n, vc, messages) ==
    /\ vc.viewNumber > CurrentView(n)
    /\ Cardinality(HigherThan(CurrentView(n), messages)) >= JoinQuorum

VotesWithOwn(view, messages) ==
    Cardinality({m \in messages : m.viewNumber = view}) + 1

\* The leader's own view change is not among the messages.
Votes(view, messages) == Cardinality({m \in messages : m.viewNumber = view})

\* Nothing here says that the view is the one the node is changing to.
Leads(n, vc, messages) ==
    /\ changing[n] /\ LeaderFor[vc.viewNumber] = n
    /\ Votes(vc.viewNumber, messages) >= ViewChangeQuorum

handleViewChange(packet) ==
    LET n == packet.to
        vc == packet.message
        messages == Received(n, vc)
    IN
    /\ Delivered(packet, "ViewChange")
    /\ changeMessages' = [changeMessages EXCEPT ![n] = messages]
    /\ \/ /\ Joins(n, vc, messages)
          /\ \E view \in 0..MaxView :
                /\ Lowest(view, {m.viewNumber : m \in HigherThan(CurrentView(n), messages)})
                /\ \/ startViewChange(n, view, {packet})
                   \/ /\ ~MayStartViewChange(n, view)
                      /\ inFlight' = inFlight \ {packet}
                      /\ UNCHANGED <<changing, changeTo, timerArmed, sentViewChanges>>
          /\ UNCHANGED <<log, viewNumber, sequenceNumber, issuedSequenceNumber, leaderVars,
                         sentNewViews, rpcs>>
       \/ /\ ~Joins(n, vc, messages) /\ Leads(n, vc, messages)
          /\ LeadNewView(n, vc.viewNumber, messages)
          /\ inFlight' = inFlight \ {packet}
          /\ UNCHANGED <<changeTo, sentViewChanges>>
       \/ /\ ~Joins(n, vc, messages) /\ ~Leads(n, vc, messages)
          /\ inFlight' = inFlight \ {packet}
          /\ UNCHANGED <<log, viewNumber, sequenceNumber, issuedSequenceNumber, changing,
                         changeTo, timerArmed, leaderVars, changeMessageVars, rpcs>>
    /\ UNCHANGED <<viewChangeFrame, sentPrepares>>

-----------------------------------------------------------------------------
(* The backups. *)

AcceptsLaterView(n, nv) == nv.viewNumber > CurrentView(n)

AcceptsNewViewAgain(n, nv) ==
    \/ changing[n] /\ nv.viewNumber = changeTo[n]
    \/ nv.viewNumber >= CurrentView(n)

AcceptsNewView(n, nv) ==
    \/ changing[n] /\ nv.viewNumber = changeTo[n]
    \/ nv.viewNumber > CurrentView(n)

\* The log after a loop that accepts some pre-prepares.  The loop passes
\* handlePrePrepare the address of its one variable: after the loop, the request
\* of every slot accepted is that of the pre-prepare it saw last.
WithAccepted(n, slots, accepted, last) ==
    [id \in SlotIds |->
        LET mine == {pp \in accepted : pp.number = id} IN
        IF mine = {} THEN slots[id]
        ELSE AcceptedSlot(n, slots[id], last.request, (CHOOSE pp \in mine : TRUE).digest)]

\* Enter the view and prepare what the new primary proposes; the loop goes over a
\* map, so any of its pre-prepares may come last.
EnterAsBackup(n, nv) ==
    LET accepted == {pp \in nv.prePrepares : /\ pp.number.seqNumber > ResumeAt(n)
                                             /\ Accepts(n, nv.viewNumber, pp)}
        prepares == {PrepareFor(n, pp) : pp \in accepted}
    IN
    /\ enterNewView(n, nv.viewNumber)
    /\ \/ accepted = {} /\ UNCHANGED <<log, issuedSequenceNumber>>
       \/ \E last \in nv.prePrepares, maxS \in 0..MaxSeq :
             /\ Highest(maxS, {pp.number.seqNumber : pp \in accepted})
             /\ log' = [log EXCEPT ![n] = WithAccepted(n, @, accepted, last)]
             /\ issuedSequenceNumber' = [issuedSequenceNumber EXCEPT ![n] = Larger(@, maxS)]
    /\ sentPrepares' = sentPrepares \cup prepares
    /\ inFlight' = inFlight \cup UNION {Broadcast("Prepare", n, m) : m \in prepares}

\* handleNewView; `rpcs' is its caller's.
handleNewView(n, nv) ==
    /\ \/ AcceptsNewView(n, nv) /\ EnterAsBackup(n, nv)
       \/ /\ ~AcceptsNewView(n, nv)
          /\ UNCHANGED <<log, viewNumber, sequenceNumber, issuedSequenceNumber, changing,
                         timerArmed, sentPrepares, inFlight>>
    /\ UNCHANGED <<viewChangeFrame, changeTo, changeMessages, leaderVars, changeMessageVars>>

=============================================================================
