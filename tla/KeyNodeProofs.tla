----------------------------- MODULE KeyNodeProofs -----------------------------
(***************************************************************************)
(* For any clients, operations and channel capacities: pendingRequests     *)
(* never holds a handler that has gone, and no client is told of a commit  *)
(* that its node has not applied.  What the consensus nodes do are steps   *)
(* of the Ledger, so that what a node has applied stays applied            *)
(* (StaysApplied); the rest follows an operation from handleUpdates to the *)
(* client.                                                                 *)
(***************************************************************************)
EXTENDS KeyNode, LedgerProofs

Submitted == \A h \in Handlers : pc[h] # "idle" => op[h] \in Requests

ApplyingApplied == \A n \in Nodes : applying[n] # Nil => AppliedAt(n, applying[n])

\* handleUpdates responds to a handler of its own node, about what it has applied.
Responds ==
    \A n \in Nodes : responding[n] # None =>
        LET h == responding[n] IN
        applying[n] # Nil /\ pc[h] # "idle" /\ at[h] = n /\ op[h] = applying[n]

\* A response in a channel, or on its way to the client, is about what is applied.
Informed ==
    \A h \in Handlers : responses[h] # 0 \/ reply[h] = "committed" =>
        pc[h] # "idle" /\ AppliedAt(at[h], op[h])

KeyInv ==
    /\ TypeOK /\ LedgerInv
    /\ Submitted /\ NoStaleWaiter /\ ApplyingApplied /\ Responds /\ Informed

-----------------------------------------------------------------------------
(* The ledger. *)

\* A main loop that stops is a Halt of the Ledger, and changes no key store.
LEMMA StopsMainLoopStep ==
    ASSUME LedgerInv, NEW n \in Nodes, StopsMainLoop(n)
    PROVE  LedgerInv' /\ StaysApplied
<1>1. Halt(n)
    BY DEF StopsMainLoop, Halt, LedgerInv, LedgerTypeOK
<1>2. LedgerInv'
    BY <1>1, HaltStep
<1>3. UNCHANGED <<chosen, store, stable>>
    BY DEF StopsMainLoop
<1>. QED
    BY <1>2, <1>3 DEF StaysApplied, AppliedAt, InStore

\* What a key node does is, for the consensus nodes, a step in which none stops, one
\* in which one does, or none at all.
LEMMA KeyNodeGoesOn ==
    TypeOK /\ [Next]_vars => GoesOn \/ \E n \in Nodes : StopsMainLoop(n)
<1>. SUFFICES ASSUME TypeOK, [Next]_vars
              PROVE  GoesOn \/ \E n \in Nodes : StopsMainLoop(n)
    OBVIOUS
<1>1. ASSUME NEW n \in Nodes, TakeRequest(n)
      PROVE  GoesOn
    <2>1. Head(requestChannel[n]) \in Requests
        BY <1>1 DEF TypeOK, TakeRequest
    <2>. QED
        BY <1>1, <2>1 DEF TakeRequest, GoesOn
<1>2. ASSUME NEW n \in Nodes, Consensus(n)
      PROVE  GoesOn
    BY <1>2 DEF Consensus, GoesOn
<1>3. ASSUME NEW n \in Nodes, NEW s \in Numbers, handleCommit(n, s)
      PROVE  GoesOn
    BY <1>3 DEF handleCommit, GoesOn
<1>4. UNCHANGED ledger => GoesOn
    BY DEF GoesOn
<1>5. ASSUME NEW n \in Nodes, Blocks(n) \/ Dies(n)
      PROVE  StopsMainLoop(n)
    BY <1>5 DEF Blocks, Dies
<1>. QED
    BY <1>1, <1>2, <1>3, <1>4, <1>5 DEF Next, vars, Receive, Propose, Register, Answer, Leave,
        ClientRequest, respondPendingRequest, Send, SetDown

\* So the ledger's invariant holds, and what is applied stays applied.
LEMMA KeyNodeLedger ==
    ASSUME KeyInv, [Next]_vars
    PROVE  LedgerInv' /\ StaysApplied
<1>1. TypeOK /\ LedgerInv
    BY DEF KeyInv
<1>2. CASE GoesOn
    <2>1. UNCHANGED ledger \/ LedgerNext
        BY <1>2 DEF GoesOn, LedgerNext
    <2>. QED
        BY <1>1, <1>2, <2>1, LedgerInvNext, AppliedStays
<1>3. ASSUME NEW n \in Nodes, StopsMainLoop(n)
      PROVE  LedgerInv' /\ StaysApplied
    BY <1>1, <1>3, StopsMainLoopStep
<1>. QED
    BY <1>1, <1>2, <1>3, KeyNodeGoesOn

-----------------------------------------------------------------------------
(* Steps that leave the handlers alone. *)

LEMMA KeyInit == Init => KeyInv
<1>. SUFFICES ASSUME Init PROVE KeyInv
    OBVIOUS
<1>1. LedgerTypeOK /\ LedgerInv
    BY LedgerInvInit DEF Init, LedgerInv
<1>2. TypeOK
    BY <1>1, NodeAssumption DEF Init, TypeOK
<1>3. NoStaleWaiter
    BY DEF Init, NoStaleWaiter
<1>. QED
    BY <1>1, <1>2, <1>3 DEF Init, KeyInv, Submitted, ApplyingApplied, Responds, Informed

\* The operation of a handler that is not idle stays executed where it asked.
LEMMA LedgerStep ==
    ASSUME KeyInv, TypeOK', LedgerInv', StaysApplied,
           UNCHANGED <<handlerVars, responses, waiter, loopVars>>
    PROVE  KeyInv'
<1>1. TypeOK
    BY DEF KeyInv
<1>2. UNCHANGED <<pc, at, op, reply, responses, waiter, applying, responding>>
    BY DEF handlerVars, loopVars
<1>3. Submitted' /\ NoStaleWaiter' /\ Responds'
    BY <1>2 DEF KeyInv, Submitted, NoStaleWaiter, Responds
<1>4. ApplyingApplied'
    <2>1. SUFFICES ASSUME NEW n \in Nodes, applying[n] # Nil
                   PROVE  AppliedAt(n, applying[n])'
        BY <1>2 DEF ApplyingApplied
    <2>2. applying[n] \in Requests /\ AppliedAt(n, applying[n])
        BY <1>1, <2>1 DEF KeyInv, ApplyingApplied, TypeOK
    <2>3. applying'[n] = applying[n]
        BY <1>2
    <2>. QED
        BY <2>2, <2>3 DEF StaysApplied, AppliedAt, InStore
<1>5. Informed'
    <2>1. SUFFICES ASSUME NEW h \in Handlers, responses[h] # 0 \/ reply[h] = "committed"
                   PROVE  pc[h] # "idle" /\ AppliedAt(at[h], op[h])'
        BY <1>2 DEF Informed, AppliedAt, InStore
    <2>2. pc[h] # "idle" /\ AppliedAt(at[h], op[h])
        BY <2>1 DEF KeyInv, Informed
    <2>3. at[h] \in Nodes /\ op[h] \in Requests
        BY <1>1, <2>2 DEF KeyInv, Submitted, TypeOK
    <2>4. at'[h] = at[h] /\ op'[h] = op[h]
        BY <1>2
    <2>. QED
        BY <2>2, <2>3, <2>4 DEF StaysApplied, AppliedAt, InStore
<1>. QED
    BY <1>3, <1>4, <1>5 DEF KeyInv

\* The main loop takes a request.
LEMMA TakeRequestStep ==
    ASSUME KeyInv, LedgerInv', StaysApplied, NEW n \in Nodes, TakeRequest(n)
    PROVE  KeyInv'
<1>1. TypeOK /\ LedgerTypeOK
    BY DEF KeyInv, TypeOK
<1>2. Head(requestChannel[n]) \in Requests /\ Tail(requestChannel[n]) \in Seq(Requests)
    BY <1>1 DEF TypeOK, TakeRequest
<1>3. LedgerTypeOK'
    BY DEF LedgerInv
<1>4. /\ requestChannel' \in [Nodes -> Seq(Requests)]
      /\ seen' \in [Nodes -> SUBSET Requests] /\ forwarded' \subseteq Requests
    <2>1. requestChannel' \in [Nodes -> Seq(Requests)]
        BY <1>1, <1>2 DEF TypeOK, TakeRequest
    <2>. DEFINE r == Head(requestChannel[n])
    <2>2. /\ seen' = seen \/ seen' = [seen EXCEPT ![n] = @ \cup {r}]
          /\ forwarded' = forwarded \/ forwarded' = forwarded \cup {r}
        BY DEF TakeRequest
    <2>. HIDE DEF r
    <2>3. r \in Requests
        BY <1>2 DEF r
    <2>4. seen' \in [Nodes -> SUBSET Requests]
        <3>1. seen \in [Nodes -> SUBSET Requests] /\ seen[n] \cup {r} \in SUBSET Requests
            BY <1>1, <2>3 DEF TypeOK
        <3>. QED
            BY <2>2, <3>1
    <2>5. forwarded' \subseteq Requests
        BY <1>1, <2>2, <2>3 DEF TypeOK
    <2>. QED
        BY <2>1, <2>4, <2>5
<1>5. UNCHANGED <<handlerVars, responses, waiter, loopVars, down, crashed>>
    BY DEF TakeRequest, channelFrame
<1>6. TypeOK'
    BY <1>1, <1>3, <1>4, <1>5 DEF TypeOK, handlerVars, loopVars
<1>. QED
    BY <1>3, <1>5, <1>6, LedgerStep

\* A backup's request reaches the primary.
LEMMA ClientRequestStep ==
    ASSUME KeyInv, LedgerInv', StaysApplied, NEW r \in forwarded, ClientRequest(r)
    PROVE  KeyInv'
<1>1. TypeOK /\ LedgerTypeOK /\ r \in Requests
    BY DEF KeyInv, TypeOK
<1>2. LedgerTypeOK'
    BY DEF LedgerInv
<1>3. requestChannel' \in [Nodes -> Seq(Requests)] /\ forwarded' \subseteq Requests
    BY <1>1, NodeAssumption DEF TypeOK, ClientRequest
<1>4. UNCHANGED <<handlerVars, responses, waiter, loopVars, down, crashed, seen>>
    BY DEF ClientRequest, channelFrame
<1>5. TypeOK'
    BY <1>1, <1>2, <1>3, <1>4 DEF TypeOK, handlerVars, loopVars
<1>. QED
    BY <1>2, <1>4, <1>5, LedgerStep

\* A node gets to know a request or trusts a snapshot; its main loop blocks; the
\* debug switch.
LEMMA ConsensusStep ==
    ASSUME KeyInv, LedgerInv', StaysApplied, NEW n \in Nodes,
           Consensus(n) \/ SetDown(n) \/ Blocks(n)
    PROVE  KeyInv'
<1>1. TypeOK /\ LedgerTypeOK
    BY DEF KeyInv, TypeOK
<1>2. LedgerTypeOK'
    BY DEF LedgerInv
<1>3. down' \in [Nodes -> BOOLEAN]
    BY <1>1 DEF TypeOK, Consensus, SetDown, Blocks
<1>4. UNCHANGED <<handlerVars, responses, waiter, loopVars, channelVars, crashed>>
    BY DEF Consensus, SetDown, Blocks
<1>5. TypeOK'
    BY <1>1, <1>2, <1>3, <1>4 DEF TypeOK, handlerVars, loopVars, channelVars
<1>. QED
    BY <1>2, <1>4, <1>5, LedgerStep

-----------------------------------------------------------------------------
(* The HTTP handler. *)

\* A step of one handler that neither changes what it has asked for nor tells its
\* client of a commit it has no response about.
LEMMA HandlerStep ==
    ASSUME KeyInv, TypeOK', LedgerInv', UNCHANGED <<ledger, at, op, loopVars>>, NEW h \in Handlers,
           pc[h] # "idle", pc'[h] # "idle",
           \A g \in Handlers \ {h} : /\ pc'[g] = pc[g] /\ reply'[g] = reply[g]
                                     /\ responses'[g] = responses[g],
           responses'[h] # 0 => responses[h] # 0,
           reply'[h] = "committed" => responses[h] # 0 \/ reply[h] = "committed",
           NoStaleWaiter'
    PROVE  KeyInv'
<1>1. UNCHANGED <<chosen, store, stable, at, op, applying, responding>>
    BY DEF ledger, loopVars
<1>2. Submitted'
    BY <1>1 DEF KeyInv, Submitted
<1>3. ApplyingApplied'
    BY <1>1 DEF KeyInv, ApplyingApplied, AppliedAt, InStore
<1>4. \A g \in Handlers : pc[g] # "idle" => pc'[g] # "idle"
    OBVIOUS
<1>5. Responds'
    BY <1>1, <1>4 DEF KeyInv, TypeOK, Responds
<1>6. Informed'
    BY <1>1, <1>4 DEF KeyInv, Informed, AppliedAt, InStore
<1>. QED
    BY <1>2, <1>3, <1>5, <1>6 DEF KeyInv

\* A request comes in: its handler was not waiting, nor being responded to.
LEMMA ReceiveStep ==
    ASSUME KeyInv, LedgerInv', StaysApplied, NEW h \in Handlers, NEW n \in Nodes, NEW r \in Requests, Receive(h, n, r)
    PROVE  KeyInv'
<1>1. TypeOK
    BY DEF KeyInv
<1>2. /\ pc[h] = "idle" /\ pc'[h] \in {"checked", "done"}
      /\ reply'[h] # "committed" \/ reply'[h] = reply[h]
      /\ at'[h] = n /\ op'[h] = r
      /\ \A g \in Handlers \ {h} : /\ pc'[g] = pc[g] /\ reply'[g] = reply[g]
                                   /\ at'[g] = at[g] /\ op'[g] = op[g]
    BY <1>1 DEF TypeOK, Receive
<1>3. UNCHANGED <<ledger, responses, waiter, channelVars, applying, responding, down,
               crashed>>
    BY DEF Receive, loopVars
<1>4. TypeOK'
    <2>1. /\ pc' \in [Handlers -> {"idle", "checked", "proposed", "waiting", "leaving", "done"}]
          /\ reply' \in [Handlers -> {"none", "empty", "refused", "committed", "timeout"}]
          /\ at' \in [Handlers -> Nodes] /\ op' \in [Handlers -> Requests \cup {Nil}]
        BY <1>1 DEF TypeOK, Receive
    <2>2. LedgerTypeOK'
        BY DEF LedgerInv
    <2>. QED
        BY <1>1, <1>3, <2>1, <2>2 DEF TypeOK, channelVars
<1>5. Submitted'
    BY <1>2 DEF KeyInv, Submitted
<1>6. NoStaleWaiter'
    <2>1. SUFFICES ASSUME NEW m \in Nodes, NEW q \in Requests, waiter[m][q] # None
                   PROVE  LET g == waiter[m][q] IN
                          pc'[g] \in {"waiting", "leaving"} /\ at'[g] = m /\ op'[g] = q
        BY <1>3 DEF NoStaleWaiter
    <2>2. /\ waiter[m][q] \in Handlers /\ waiter[m][q] # h
          /\ pc[waiter[m][q]] \in {"waiting", "leaving"}
          /\ at[waiter[m][q]] = m /\ op[waiter[m][q]] = q
        BY <1>1, <1>2, <2>1 DEF KeyInv, NoStaleWaiter, TypeOK
    <2>. QED
        BY <1>2, <2>2
<1>7. ApplyingApplied'
    BY <1>3 DEF KeyInv, ApplyingApplied, AppliedAt, InStore, ledger
<1>8. Responds'
    BY <1>1, <1>2, <1>3 DEF KeyInv, Responds, TypeOK
<1>9. Informed'
    BY <1>2, <1>3 DEF KeyInv, Informed, AppliedAt, InStore, ledger
<1>. QED
    BY <1>4, <1>5, <1>6, <1>7, <1>8, <1>9 DEF KeyInv

\* The handler proposes.
LEMMA ProposeStep ==
    ASSUME KeyInv, LedgerInv', StaysApplied, NEW h \in Handlers, Propose(h)
    PROVE  KeyInv'
<1>1. TypeOK /\ op[h] \in Requests /\ at[h] \in Nodes /\ pc[h] = "checked"
    BY DEF KeyInv, TypeOK, Submitted, Propose
<1>2. TypeOK'
    <2>1. requestChannel' \in [Nodes -> Seq(Requests)]
        BY <1>1 DEF TypeOK, Propose
    <2>2. LedgerTypeOK'
        BY DEF LedgerInv
    <2>. QED
        BY <1>1, <2>1, <2>2 DEF TypeOK, Propose, loopVars
<1>3. pc'[h] = "proposed" /\ \A g \in Handlers \ {h} : pc'[g] = pc[g]
    BY <1>1 DEF TypeOK, Propose
<1>4. NoStaleWaiter'
    BY <1>1, <1>3 DEF KeyInv, NoStaleWaiter, TypeOK, Propose
<1>. QED
    BY <1>1, <1>2, <1>3, <1>4, HandlerStep DEF Propose

\* The handler registers, as one that waits from now on.
LEMMA RegisterStep ==
    ASSUME KeyInv, LedgerInv', StaysApplied, NEW h \in Handlers, Register(h)
    PROVE  KeyInv'
<1>1. TypeOK /\ op[h] \in Requests /\ at[h] \in Nodes /\ pc[h] = "proposed"
    BY DEF KeyInv, TypeOK, Submitted, Register
<1>2. TypeOK'
    <2>1. waiter' \in [Nodes -> [Requests -> Handlers \cup {None}]]
        BY <1>1 DEF TypeOK, Register
    <2>2. LedgerTypeOK'
        BY DEF LedgerInv
    <2>. QED
        BY <1>1, <2>1, <2>2 DEF TypeOK, Register, loopVars, channelVars
<1>3. pc'[h] = "waiting" /\ \A g \in Handlers \ {h} : pc'[g] = pc[g]
    BY <1>1 DEF TypeOK, Register
<1>4. \A n \in Nodes, r \in Requests :
         \/ waiter'[n][r] = waiter[n][r]
         \/ waiter'[n][r] = h /\ n = at[h] /\ r = op[h]
    BY <1>1 DEF TypeOK, Register
<1>5. NoStaleWaiter'
    BY <1>1, <1>3, <1>4 DEF KeyInv, NoStaleWaiter, TypeOK, Register
<1>. QED
    BY <1>1, <1>2, <1>3, <1>5, HandlerStep DEF Register

\* The handler answers, of a commit only if it has got a response.
LEMMA AnswerStep ==
    ASSUME KeyInv, LedgerInv', StaysApplied, NEW h \in Handlers, Answer(h)
    PROVE  KeyInv'
<1>1. TypeOK /\ pc[h] = "waiting"
    BY DEF KeyInv, Answer
<1>2. responses[h] \in Nat /\ (responses[h] > 0 => responses[h] - 1 \in Nat)
    BY <1>1 DEF TypeOK
<1>3. TypeOK'
    <2>1. responses' \in [Handlers -> Nat]
        BY <1>1, <1>2 DEF TypeOK, Answer, GetsResponse
    <2>2. reply' \in [Handlers -> {"none", "empty", "refused", "committed", "timeout"}]
        BY <1>1 DEF TypeOK, Answer, TimeoutReply
    <2>3. LedgerTypeOK'
        BY DEF LedgerInv
    <2>. QED
        BY <1>1, <2>1, <2>2, <2>3 DEF TypeOK, Answer, loopVars, channelVars
<1>4. /\ pc'[h] = "leaving"
      /\ \A g \in Handlers \ {h} : /\ pc'[g] = pc[g] /\ reply'[g] = reply[g]
                                   /\ responses'[g] = responses[g]
      /\ responses'[h] # 0 => responses[h] # 0
      /\ reply'[h] = "committed" => responses[h] # 0
    BY <1>1, <1>2 DEF TypeOK, Answer, GetsResponse, TimeoutReply
<1>5. NoStaleWaiter'
    BY <1>1, <1>4 DEF KeyInv, NoStaleWaiter, TypeOK, Answer
<1>. QED
    BY <1>1, <1>3, <1>4, <1>5, HandlerStep DEF Answer

\* The handler deletes its entry, which is the only one it can have.
LEMMA LeaveStep ==
    ASSUME KeyInv, LedgerInv', StaysApplied, NEW h \in Handlers, Leave(h)
    PROVE  KeyInv'
<1>1. TypeOK /\ op[h] \in Requests /\ at[h] \in Nodes /\ pc[h] = "leaving"
    BY DEF KeyInv, TypeOK, Submitted, Leave
<1>2. TypeOK'
    <2>1. waiter' \in [Nodes -> [Requests -> Handlers \cup {None}]]
        BY <1>1 DEF TypeOK, Leave, Unregistered
    <2>2. LedgerTypeOK'
        BY DEF LedgerInv
    <2>. QED
        BY <1>1, <2>1, <2>2 DEF TypeOK, Leave, loopVars, channelVars
<1>3. pc'[h] = "done" /\ \A g \in Handlers \ {h} : pc'[g] = pc[g]
    BY <1>1 DEF TypeOK, Leave
<1>4. /\ waiter'[at[h]][op[h]] = None
      /\ \A n \in Nodes, r \in Requests :
            n # at[h] \/ r # op[h] => waiter'[n][r] = waiter[n][r]
    BY <1>1 DEF TypeOK, Leave, Unregistered
<1>5. NoStaleWaiter'
    BY <1>1, <1>3, <1>4 DEF KeyInv, NoStaleWaiter, TypeOK, Leave
<1>. QED
    BY <1>1, <1>2, <1>3, <1>5, HandlerStep DEF Leave

-----------------------------------------------------------------------------
(* The loop handleUpdates. *)

\* It applies what the consensus node has executed.
LEMMA handleCommitStep ==
    ASSUME KeyInv, LedgerInv', StaysApplied, NEW n \in Nodes, NEW s \in Numbers, handleCommit(n, s)
    PROVE  KeyInv'
<1>1. TypeOK /\ LedgerTypeOK /\ applying[n] = Nil /\ Execute(n, s)
    BY DEF KeyInv, TypeOK, handleCommit, Idle
<1>2. /\ LedgerTypeOK'
      /\ s \in known[n] => AppliedAt(n, chosen[s])'
    BY <1>1, ExecuteApplies DEF LedgerInv, AppliedAt, Execute
<1>3. /\ UNCHANGED <<pc, at, op, reply, responses, waiter, channelVars, responding, down,
                  crashed>>
      /\ UNCHANGED chosen
    BY <1>1 DEF handleCommit, handlerVars, Execute
<1>4. /\ \/ applying'[n] = Nil
         \/ s \in known[n] /\ applying'[n] = chosen[s]
      /\ applying' \in [Nodes -> Requests \cup {Nil}]
      /\ \A m \in Nodes \ {n} : applying'[m] = applying[m]
    <2>1. applying' = [applying EXCEPT ![n] = DecodedOperation(n, s)]
        BY DEF handleCommit
    <2>2. \/ DecodedOperation(n, s) = Nil
          \/ s \in known[n] /\ DecodedOperation(n, s) = chosen[s]
        BY DEF DecodedOperation
    <2>3. chosen[s] \in Requests \cup {Nil}
        BY <1>1 DEF LedgerTypeOK
    <2>. QED
        BY <1>1, <2>1, <2>2, <2>3 DEF TypeOK
<1>5. TypeOK'
    BY <1>1, <1>2, <1>3, <1>4 DEF TypeOK, channelVars
<1>6. Submitted' /\ NoStaleWaiter'
    BY <1>3 DEF KeyInv, Submitted, NoStaleWaiter
<1>7. ApplyingApplied'
    <2>1. SUFFICES ASSUME NEW m \in Nodes, applying'[m] # Nil
                   PROVE  AppliedAt(m, applying[m])'
        BY DEF ApplyingApplied
    <2>2. CASE m = n
        BY <1>2, <1>3, <1>4, <2>1, <2>2 DEF AppliedAt, InStore
    <2>3. CASE m # n
        <3>1. applying'[m] = applying[m]
            BY <1>4, <2>3
        <3>2. applying[m] \in Requests /\ AppliedAt(m, applying[m])
            BY <1>1, <2>1, <3>1 DEF KeyInv, ApplyingApplied, TypeOK
        <3>. QED
            BY <1>2, <3>1, <3>2 DEF StaysApplied, AppliedAt, InStore
    <2>. QED
        BY <2>2, <2>3
<1>8. Responds'
    BY <1>1, <1>3, <1>4 DEF KeyInv, Responds
<1>9. Informed'
    <2>1. SUFFICES ASSUME NEW h \in Handlers, responses[h] # 0 \/ reply[h] = "committed"
                   PROVE  pc[h] # "idle" /\ AppliedAt(at[h], op[h])'
        BY <1>3 DEF Informed, AppliedAt, InStore
    <2>2. pc[h] # "idle" /\ AppliedAt(at[h], op[h])
        BY <2>1 DEF KeyInv, Informed
    <2>3. at[h] \in Nodes /\ op[h] \in Requests
        BY <1>1, <2>2 DEF KeyInv, Submitted, TypeOK
    <2>4. at'[h] = at[h] /\ op'[h] = op[h]
        BY <1>3
    <2>. QED
        BY <1>2, <2>2, <2>3, <2>4 DEF StaysApplied, AppliedAt, InStore
<1>. QED
    BY <1>5, <1>6, <1>7, <1>8, <1>9 DEF KeyInv

\* The handler it finds registered waits, at its node, for what it has applied.
LEMMA respondPendingRequestStep ==
    ASSUME KeyInv, LedgerInv', StaysApplied, NEW n \in Nodes, respondPendingRequest(n)
    PROVE  KeyInv'
<1>. DEFINE h == waiter[n][applying[n]]
<1>1. TypeOK /\ applying[n] \in Requests /\ h \in Handlers \cup {None}
    BY DEF KeyInv, TypeOK, respondPendingRequest, Idle
<1>2. h # None => pc[h] # "idle" /\ at[h] = n /\ op[h] = applying[n]
    BY <1>1 DEF KeyInv, NoStaleWaiter
<1>3. UNCHANGED <<ledger, pc, at, op, reply, responses, waiter, channelVars, down, crashed>>
    BY DEF respondPendingRequest, handlerVars
<1>4. /\ responding'[n] = h /\ (h # None => applying'[n] = applying[n])
      /\ applying'[n] \in {applying[n], Nil}
      /\ \A m \in Nodes \ {n} :
            applying'[m] = applying[m] /\ responding'[m] = responding[m]
    BY <1>1 DEF TypeOK, respondPendingRequest
<1>5. TypeOK'
    <2>1. /\ applying' \in [Nodes -> Requests \cup {Nil}]
          /\ responding' \in [Nodes -> Handlers \cup {None}]
        BY <1>1 DEF TypeOK, respondPendingRequest
    <2>2. LedgerTypeOK'
        BY DEF LedgerInv
    <2>. QED
        BY <1>1, <1>3, <2>1, <2>2 DEF TypeOK, channelVars
<1>6. Submitted' /\ NoStaleWaiter'
    BY <1>3 DEF KeyInv, Submitted, NoStaleWaiter
<1>7. ApplyingApplied' /\ Informed'
    BY <1>3, <1>4 DEF KeyInv, ApplyingApplied, Informed, AppliedAt, InStore, ledger
<1>8. Responds'
    <2>1. SUFFICES ASSUME NEW m \in Nodes, responding'[m] # None
                   PROVE  LET g == responding'[m] IN
                          /\ applying'[m] # Nil /\ pc'[g] # "idle"
                          /\ at'[g] = m /\ op'[g] = applying'[m]
        BY DEF Responds
    <2>2. CASE m = n
        BY <1>1, <1>2, <1>3, <1>4, <2>1, <2>2, NilAssumption
    <2>3. CASE m # n
        BY <1>3, <1>4, <2>1, <2>3 DEF KeyInv, Responds
    <2>. QED
        BY <2>2, <2>3
<1>. QED
    BY <1>5, <1>6, <1>7, <1>8 DEF KeyInv

\* It sends a response about what it has applied.
LEMMA SendStep ==
    ASSUME KeyInv, LedgerInv', StaysApplied, NEW n \in Nodes, Send(n)
    PROVE  KeyInv'
<1>. DEFINE h == responding[n]
<1>1. TypeOK /\ h \in Handlers
    BY DEF KeyInv, TypeOK, Send
<1>2. pc[h] # "idle" /\ AppliedAt(at[h], op[h])
    BY DEF KeyInv, Responds, ApplyingApplied, Send
<1>3. UNCHANGED <<ledger, pc, at, op, reply, waiter, channelVars, down, crashed>>
    BY DEF Send, handlerVars
<1>4. /\ responding'[n] = None /\ applying'[n] = Nil
      /\ \A m \in Nodes \ {n} :
            applying'[m] = applying[m] /\ responding'[m] = responding[m]
      /\ \A g \in Handlers \ {h} : responses'[g] = responses[g]
    BY <1>1 DEF TypeOK, Send
<1>5. TypeOK'
    <2>1. /\ applying' \in [Nodes -> Requests \cup {Nil}]
          /\ responding' \in [Nodes -> Handlers \cup {None}]
          /\ responses' \in [Handlers -> Nat]
        BY <1>1 DEF TypeOK, Send
    <2>2. LedgerTypeOK'
        BY DEF LedgerInv
    <2>. QED
        BY <1>1, <1>3, <2>1, <2>2 DEF TypeOK, channelVars
<1>6. Submitted' /\ NoStaleWaiter'
    BY <1>3 DEF KeyInv, Submitted, NoStaleWaiter
<1>7. ApplyingApplied' /\ Responds'
    BY <1>3, <1>4 DEF KeyInv, ApplyingApplied, Responds, AppliedAt, InStore, ledger
<1>8. Informed'
    BY <1>2, <1>3, <1>4 DEF KeyInv, Informed, AppliedAt, InStore, ledger
<1>. QED
    BY <1>5, <1>6, <1>7, <1>8 DEF KeyInv

-----------------------------------------------------------------------------
\* A process dies: its handlers are gone, with their entries and the update loop.
LEMMA DiesStep ==
    ASSUME KeyInv, LedgerInv', StaysApplied, NEW n \in Nodes, Dies(n)
    PROVE  KeyInv'
<1>1. TypeOK /\ LedgerTypeOK
    BY DEF KeyInv, TypeOK
<1>2. /\ UNCHANGED <<at, op, reply, responses, seen, forwarded, down>>
      /\ UNCHANGED <<chosen, store, stable>>
    BY DEF Dies, StopsMainLoop
<1>3. \A h \in Handlers :
         /\ pc[h] # "idle" <=> pc'[h] # "idle"
         /\ at[h] # n => pc'[h] = pc[h]
    BY <1>1 DEF TypeOK, Dies
<1>4. /\ \A r \in Requests : waiter'[n][r] = None
      /\ applying'[n] = Nil /\ responding'[n] = None
      /\ \A m \in Nodes \ {n} : /\ waiter'[m] = waiter[m] /\ applying'[m] = applying[m]
                                /\ responding'[m] = responding[m]
    BY <1>1 DEF TypeOK, Dies
<1>5. TypeOK'
    <2>1. LedgerTypeOK'
        BY DEF LedgerInv
    <2>2. pc' \in [Handlers -> {"idle", "checked", "proposed", "waiting", "leaving", "done"}]
        BY <1>1 DEF TypeOK, Dies
    <2>3. /\ waiter' \in [Nodes -> [Requests -> Handlers \cup {None}]]
          /\ requestChannel' \in [Nodes -> Seq(Requests)]
        <3>1. /\ <<>> \in Seq(Requests)
              /\ [r \in Requests |-> None] \in [Requests -> Handlers \cup {None}]
            OBVIOUS
        <3>. QED
            BY <1>1, <3>1 DEF TypeOK, Dies
    <2>4. /\ applying' \in [Nodes -> Requests \cup {Nil}]
          /\ responding' \in [Nodes -> Handlers \cup {None}]
          /\ crashed' \in [Nodes -> BOOLEAN]
        BY <1>1 DEF TypeOK, Dies
    <2>. QED
        BY <1>1, <1>2, <2>1, <2>2, <2>3, <2>4 DEF TypeOK
<1>6. Submitted'
    BY <1>2, <1>3 DEF KeyInv, Submitted
<1>7. NoStaleWaiter'
    <2>1. SUFFICES ASSUME NEW m \in Nodes, NEW r \in Requests, waiter'[m][r] # None
                   PROVE  LET h == waiter'[m][r] IN
                          pc'[h] \in {"waiting", "leaving"} /\ at'[h] = m /\ op'[h] = r
        BY DEF NoStaleWaiter
    <2>2. m # n /\ waiter'[m][r] = waiter[m][r]
        BY <1>4, <2>1
    <2>3. waiter[m][r] \in Handlers
        BY <1>1, <2>1, <2>2 DEF TypeOK
    <2>. QED
        BY <1>2, <1>3, <2>1, <2>2, <2>3 DEF KeyInv, NoStaleWaiter
<1>8. ApplyingApplied'
    BY <1>2, <1>4 DEF KeyInv, ApplyingApplied, AppliedAt, InStore
<1>9. Responds'
    <2>1. SUFFICES ASSUME NEW m \in Nodes, responding'[m] # None
                   PROVE  LET h == responding'[m] IN
                          /\ applying'[m] # Nil /\ pc'[h] # "idle"
                          /\ at'[h] = m /\ op'[h] = applying'[m]
        BY DEF Responds
    <2>2. responding'[m] = responding[m] /\ applying'[m] = applying[m]
        BY <1>4, <2>1
    <2>3. responding[m] \in Handlers
        BY <1>1, <2>1, <2>2 DEF TypeOK
    <2>. QED
        BY <1>2, <1>3, <2>1, <2>2, <2>3 DEF KeyInv, Responds
<1>10. Informed'
    BY <1>2, <1>3 DEF KeyInv, Informed, AppliedAt, InStore
<1>. QED
    BY <1>5, <1>6, <1>7, <1>8, <1>9, <1>10 DEF KeyInv

-----------------------------------------------------------------------------
\* Every step preserves the invariant.
LEMMA KeyNext == KeyInv /\ [Next]_vars => KeyInv'
<1>. SUFFICES ASSUME KeyInv, [Next]_vars
              PROVE  KeyInv'
    OBVIOUS
<1>0. LedgerInv' /\ StaysApplied
    BY KeyNodeLedger
<1>1. CASE UNCHANGED vars
    <2>1. LedgerTypeOK'
        BY <1>0 DEF LedgerInv
    <2>2. TypeOK'
        BY <1>1, <2>1 DEF KeyInv, TypeOK, vars, handlerVars, channelVars, loopVars
    <2>. QED
        BY <1>0, <1>1, <2>2, LedgerStep DEF vars
<1>. QED
    BY <1>0, <1>1, ReceiveStep, ProposeStep, RegisterStep, AnswerStep, LeaveStep, TakeRequestStep,
        ClientRequestStep, handleCommitStep, respondPendingRequestStep, SendStep, ConsensusStep,
        DiesStep
        DEF Next

\* The invariant holds in every behaviour.
LEMMA KeyInvariant == Spec => []KeyInv
BY KeyInit, KeyNext, PTL DEF Spec

\* Every variable keeps its type.
THEOREM KeyNodeTypeCorrect == Spec => []TypeOK
<1>1. KeyInv => TypeOK
    BY DEF KeyInv
<1>. QED
    BY <1>1, KeyInvariant, PTL

\* However many handlers wait for one operation and give up, none stays registered
\* after it has gone.
THEOREM NoStaleWaiterHolds == Spec => []NoStaleWaiter
<1>1. KeyInv => NoStaleWaiter
    BY DEF KeyInv
<1>. QED
    BY <1>1, KeyInvariant, PTL

\* No client is told "committed" before its node has applied its operation, or
\* trusts a later snapshot; late, doubled and lost responses do not change that,
\* nor does a commit that comes before its request.
THEOREM CommittedMeansAppliedHolds == Spec => []CommittedMeansApplied
<1>1. KeyInv => CommittedMeansApplied
    BY DEF KeyInv, Informed, AppliedAt, InStore, CommittedMeansApplied
<1>. QED
    BY <1>1, KeyInvariant, PTL

=============================================================================
