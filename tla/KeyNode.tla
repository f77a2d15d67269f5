------------------------------- MODULE KeyNode -------------------------------
(***************************************************************************)
(* The key nodes (src/distributepki/keynode.go): HTTP handlers that check  *)
(* an operation against the key store, propose it and wait for it to be    *)
(* executed, and the loop handleUpdates that applies what the consensus    *)
(* node hands over and wakes the waiting handler.                          *)
(*                                                                         *)
(* The consensus nodes are the Ledger of this module's variables, with the *)
(* channel that leads to each of them and the requests backups forward.    *)
(* The digest of an operation stands for the operation.                    *)
(***************************************************************************)
EXTENDS Ledger, FiniteSets

CONSTANTS
    Keys,       \* the public keys
    NoKey,      \* an alias that has no key
    Initial,    \* alias -> its key in the configuration file, or NoKey
    Handlers,   \* bound: the HTTP requests that change keys
    Asks,       \* bound: handler -> the nodes its client may ask
    None,       \* no handler
    Primary,    \* the primary of the first view
    REQUESTS,   \* the capacity of a consensus node's requestChannel
    RESPONSES,  \* the capacity of a handler's response channel
    Trusting,   \* bound: the nodes that trust snapshots of checkpoints
    Droppable,  \* bound: the nodes the debug REPL may take down
    Halting     \* bound: the nodes whose main loop may come to an end

Aliases == DOMAIN Initial

\* A create is signed by the authority, an update by the key it replaces.
Operation == [kind : {"create", "update"}, alias : Aliases, key : Keys,
              signer : Keys \cup {NoKey}]

ASSUME KeyAssumption ==
    /\ NoKey \notin Keys /\ Initial \in [Aliases -> Keys \cup {NoKey}]
    /\ Requests \subseteq Operation
ASSUME HandlerAssumption == None \notin Handlers /\ Asks \in [Handlers -> SUBSET Nodes]
ASSUME NodeAssumption == Primary \in Nodes /\ Trusting \cup Droppable \cup Halting \subseteq Nodes
ASSUME ChannelAssumption == REQUESTS \in Nat \ {0} /\ RESPONSES \in Nat

VARIABLES
    pc, at, op,     \* handler -> where it is, its node, its operation
    reply,          \* handler -> what it has written to its client
    responses,      \* handler -> the responses in its channel, all ""
    waiter,         \* node -> pendingRequests: operation -> handler, or None
    requestChannel, \* node -> operations proposed, not yet taken by its main loop
    seen,           \* node -> the requests its consensus node has taken (requests)
    forwarded,      \* requests on their way from a backup to the primary
    applying,       \* node -> the operation handleUpdates has applied and not
                    \* answered yet, or Nil
    responding,     \* node -> the handler it is about to respond to, or None
    down,           \* node -> the debug flag
    crashed         \* node -> its process has died

handlerVars == <<pc, at, op, reply>>
channelVars == <<requestChannel, seen, forwarded>>

loopVars == <<applying, responding>>

vars == <<ledger, handlerVars, responses, waiter, channelVars, loopVars, down, crashed>>

TypeOK ==
    /\ LedgerTypeOK
    /\ pc \in [Handlers -> {"idle", "checked", "proposed", "waiting", "leaving", "done"}]
    /\ at \in [Handlers -> Nodes]
    /\ op \in [Handlers -> Requests \cup {Nil}]
    /\ reply \in [Handlers -> {"none", "empty", "refused", "committed", "timeout"}]
    /\ responses \in [Handlers -> Nat]
    /\ waiter \in [Nodes -> [Requests -> Handlers \cup {None}]]
    /\ requestChannel \in [Nodes -> Seq(Requests)]
    /\ seen \in [Nodes -> SUBSET Requests]
    /\ forwarded \subseteq Requests
    /\ applying \in [Nodes -> Requests \cup {Nil}]
    /\ responding \in [Nodes -> Handlers \cup {None}]
    /\ down \in [Nodes -> BOOLEAN]
    /\ crashed \in [Nodes -> BOOLEAN]

Init ==
    /\ LedgerInit
    /\ pc = [h \in Handlers |-> "idle"]
    /\ at = [h \in Handlers |-> Primary]
    /\ op = [h \in Handlers |-> Nil]
    /\ reply = [h \in Handlers |-> "none"]
    /\ responses = [h \in Handlers |-> 0]
    /\ waiter = [n \in Nodes |-> [r \in Requests |-> None]]
    /\ requestChannel = [n \in Nodes |-> <<>>]
    /\ seen = [n \in Nodes |-> {}]
    /\ forwarded = {}
    /\ applying = [n \in Nodes |-> Nil]
    /\ responding = [n \in Nodes |-> None]
    /\ down = [n \in Nodes |-> FALSE]
    /\ crashed = [n \in Nodes |-> FALSE]

-----------------------------------------------------------------------------
(* The key store: the last operation on an alias decides. *)

\* The key of an alias after some operations (CreateKey and UpdateKey overwrite).
KeyAfter(operations, alias) ==
    LET mine == {i \in DOMAIN operations : operations[i].alias = alias} IN
    IF mine = {} THEN Initial[alias]
    ELSE LET last == CHOOSE i \in mine : \A j \in mine : j <= i IN operations[last].key

\* A create wants an alias without a key, an update the signature of its key.
Permitted(operations, r) ==
    LET key == KeyAfter(operations, r.alias) IN
    \/ r.kind = "create" /\ key = NoKey
    \/ r.kind = "update" /\ key # NoKey /\ r.signer = key

-----------------------------------------------------------------------------
(* An HTTP handler. *)

\* A node that is down answers 200 with an empty body.  Otherwise the operation
\* is checked against the store there is now, and never again.
Receive(h, n, r) ==
    /\ pc[h] = "idle" /\ n \in Asks[h] /\ ~crashed[n]
    /\ at' = [at EXCEPT ![h] = n]
    /\ op' = [op EXCEPT ![h] = r]
    /\ \/ /\ ~down[n] /\ Permitted(store[n], r)
          /\ pc' = [pc EXCEPT ![h] = "checked"]
          /\ UNCHANGED reply
       \/ /\ down[n] \/ ~Permitted(store[n], r)
          /\ pc' = [pc EXCEPT ![h] = "done"]
          /\ reply' = [reply EXCEPT ![h] = IF down[n] THEN "empty" ELSE "refused"]
    /\ UNCHANGED <<ledger, responses, waiter, channelVars, loopVars, down, crashed>>

\* Propose blocks, without a time limit, while the channel is full: for good, if the
\* main loop is blocked.
Propose(h) ==
    /\ pc[h] = "checked"
    /\ Len(requestChannel[at[h]]) < REQUESTS
    /\ requestChannel' = [requestChannel EXCEPT ![at[h]] = Append(@, op[h])]
    /\ pc' = [pc EXCEPT ![h] = "proposed"]
    /\ UNCHANGED <<ledger, at, op, reply, responses, waiter, seen, forwarded, loopVars, down,
                   crashed>>

\* Only now does the handler say that it waits; it takes the place of another
\* that waits for the same operation.
Register(h) ==
    /\ pc[h] = "proposed"
    /\ waiter' = [waiter EXCEPT ![at[h]][op[h]] = h]
    /\ pc' = [pc EXCEPT ![h] = "waiting"]
    /\ UNCHANGED <<ledger, at, op, reply, responses, channelVars, loopVars, down, crashed>>

GetsResponse(h) == responses[h] > 0

NeverGivesUp(h) == FALSE

\* Ten seconds may pass, and a response may have come in the same instant.
GivesUp(h) == TRUE

NoError == "committed"

\* What a handler that has given up writes to its client.
TimeoutReply == "timeout"

\* The select of waitForCommit, and the answer to the client.
Answer(h) ==
    /\ pc[h] = "waiting"
    /\ \/ /\ GetsResponse(h)
          /\ responses' = [responses EXCEPT ![h] = @ - 1]
          /\ reply' = [reply EXCEPT ![h] = "committed"]
       \/ /\ GivesUp(h)
          /\ reply' = [reply EXCEPT ![h] = TimeoutReply]
          /\ UNCHANGED responses
    /\ pc' = [pc EXCEPT ![h] = "leaving"]
    /\ UNCHANGED <<ledger, at, op, waiter, channelVars, loopVars, down, crashed>>

StillRegistered(entry) == entry

Unregistered(entry) == None

\* The entry is deleted by digest, whoever it belongs to.
Leave(h) ==
    /\ pc[h] = "leaving"
    /\ waiter' = [waiter EXCEPT ![at[h]][op[h]] = Unregistered(@)]
    /\ pc' = [pc EXCEPT ![h] = "done"]
    /\ UNCHANGED <<ledger, at, op, reply, responses, channelVars, loopVars, down, crashed>>

-----------------------------------------------------------------------------
(* The consensus node's main loop takes a request (handleClientRequest in    *)
(* node.go): the primary numbers it, a backup sends it on, both at most      *)
(* once.  A node that is changing view drops it.                             *)

channelFrame == <<handlerVars, responses, waiter, loopVars, down, crashed>>

TakeRequest(n) ==
    LET r == Head(requestChannel[n]) IN
    /\ ~halted[n] /\ requestChannel[n] # <<>>
    /\ requestChannel' = [requestChannel EXCEPT ![n] = Tail(@)]
    /\ \/ /\ r \notin seen[n] /\ n = Primary
          /\ seen' = [seen EXCEPT ![n] = @ \cup {r}]
          /\ \E s \in Numbers : ChooseAt(n, r, s)
          /\ UNCHANGED forwarded
       \/ /\ r \notin seen[n] /\ n # Primary
          /\ seen' = [seen EXCEPT ![n] = @ \cup {r}]
          /\ forwarded' = forwarded \cup {r}
          /\ UNCHANGED ledger
       \/ UNCHANGED <<ledger, seen, forwarded>>
    /\ UNCHANGED channelFrame

\* The ClientRequest RPC of a backup; one that is not taken is lost.  The method runs
\* beside the main loop: it fills the channel of a blocked one.
ClientRequest(r) ==
    /\ ~crashed[Primary] /\ Len(requestChannel[Primary]) < REQUESTS
    /\ forwarded' = forwarded \ {r}
    /\ requestChannel' = [requestChannel EXCEPT ![Primary] = Append(@, r)]
    /\ UNCHANGED <<ledger, channelFrame, seen>>

-----------------------------------------------------------------------------
(* The loop handleUpdates.  It takes the next thing from the consensus node  *)
(* only when it has done with the last.                                      *)

Idle(n) == applying[n] = Nil

CommittedOperation(n, s) == chosen[s]

\* The operation of a commit.  A nil request is none.
DecodedOperation(n, s) == IF s \in known[n] THEN chosen[s] ELSE Nil

\* handleCommit up to the response.
handleCommit(n, s) ==
    /\ Idle(n)
    /\ Execute(n, s)
    /\ applying' = [applying EXCEPT ![n] = DecodedOperation(n, s)]
    /\ UNCHANGED <<handlerVars, responses, waiter, channelVars, responding, down, crashed>>

NoBuffer == 0

Capacity == RESPONSES

\* respondPendingRequest: the handler that is registered now is the one to tell.
respondPendingRequest(n) ==
    LET h == waiter[n][applying[n]] IN
    /\ ~Idle(n) /\ responding[n] = None
    /\ responding' = [responding EXCEPT ![n] = h]
    /\ applying' = [applying EXCEPT ![n] = IF h = None THEN Nil ELSE @]
    /\ UNCHANGED <<ledger, handlerVars, responses, waiter, channelVars, down, crashed>>

\* The response goes into its channel, whether the handler still waits or not.
Send(n) ==
    LET h == responding[n] IN
    /\ h # None /\ responses[h] < Capacity
    /\ responses' = [responses EXCEPT ![h] = @ + 1]
    /\ responding' = [responding EXCEPT ![n] = None]
    /\ applying' = [applying EXCEPT ![n] = Nil]
    /\ UNCHANGED <<ledger, handlerVars, waiter, channelVars, down, crashed>>

\* A node gets to know a request, or trusts a snapshot (handleSnapshot).
Consensus(n) ==
    /\ \/ \E s \in Numbers : Learn(n, s)
       \/ n \in Trusting /\ Idle(n) /\ \E t \in taken : Stabilise(n, t)
    /\ UNCHANGED <<handlerVars, responses, waiter, channelVars, loopVars, down, crashed>>

\* The main loop handles the debug command.
SetDown(n) ==
    /\ ~halted[n] /\ n \in Droppable
    /\ down' = [down EXCEPT ![n] = ~@]
    /\ UNCHANGED <<ledger, handlerVars, responses, waiter, channelVars, loopVars, crashed>>

-----------------------------------------------------------------------------
(* The end of a main loop.  What it has done of the handler it is in is not  *)
(* read any more: of what Halt of the Ledger allows, it changes nothing.     *)

StopsMainLoop(n) ==
    /\ n \in Halting /\ ~halted[n]
    /\ halted' = [halted EXCEPT ![n] = TRUE]
    /\ UNCHANGED <<chosen, known, executed, reached, stable, store, taken>>

\* It gives a commit or a snapshot to handleUpdates, which waits for room for a
\* snapshot of its own: both are blocked for good (NeverBlocks in PBFT).  It takes
\* three checkpoints in a row; here it may happen between any two commits, so that
\* a few requests are enough.  HTTP handlers and RPC methods go on.
Blocks(n) ==
    /\ Idle(n)
    /\ StopsMainLoop(n)
    /\ UNCHANGED <<handlerVars, responses, waiter, channelVars, loopVars, down, crashed>>

\* It panics (NeverPanics in PBFT), or a map it writes to is being encoded (Writes in
\* Transport): the process ends with all its goroutines.
Dies(n) ==
    /\ StopsMainLoop(n)
    /\ crashed' = [crashed EXCEPT ![n] = TRUE]
    /\ pc' = [h \in Handlers |-> IF at[h] = n /\ pc[h] # "idle" THEN "done" ELSE pc[h]]
    /\ waiter' = [waiter EXCEPT ![n] = [r \in Requests |-> None]]
    /\ requestChannel' = [requestChannel EXCEPT ![n] = <<>>]
    /\ applying' = [applying EXCEPT ![n] = Nil]
    /\ responding' = [responding EXCEPT ![n] = None]
    /\ UNCHANGED <<at, op, reply, responses, seen, forwarded, down>>

-----------------------------------------------------------------------------
Next ==
    \/ \E h \in Handlers, n \in Nodes, r \in Requests : Receive(h, n, r)
    \/ \E h \in Handlers : Propose(h)
    \/ \E h \in Handlers : Register(h)
    \/ \E h \in Handlers : Answer(h)
    \/ \E h \in Handlers : Leave(h)
    \/ \E n \in Nodes : TakeRequest(n)
    \/ \E r \in forwarded : ClientRequest(r)
    \/ \E n \in Nodes, s \in Numbers : handleCommit(n, s)
    \/ \E n \in Nodes : respondPendingRequest(n)
    \/ \E n \in Nodes : Send(n)
    \/ \E n \in Nodes : Consensus(n)
    \/ \E n \in Nodes : SetDown(n)
    \/ \E n \in Nodes : Blocks(n)
    \/ \E n \in Nodes : Dies(n)

Spec == Init /\ [][Next]_vars

\* Goroutines are scheduled and clocks run: every handler goes on, a main loop that
\* has not halted takes what is proposed, handleUpdates answers what it has applied.
\* Nothing forces clients, or the network, to do anything.
Fairness ==
    /\ \A h \in Handlers :
          WF_vars(Propose(h) \/ Register(h) \/ Answer(h) \/ Leave(h))
    /\ \A n \in Nodes :
          WF_vars(TakeRequest(n)) /\ WF_vars(respondPendingRequest(n) \/ Send(n))

FairSpec == Spec /\ Fairness

-----------------------------------------------------------------------------
(* Properties. *)

\* A client is told that its operation is committed only if the key store of its
\* node has applied it, or was replaced by a snapshot taken after it was chosen:
\* neither another's response, nor the retry of an operation, nor a commit that
\* comes before the request is taken for it.
CommittedMeansApplied ==
    \A h \in Handlers : reply[h] = "committed" =>
        \/ \E i \in DOMAIN store[at[h]] : store[at[h]][i] = op[h]
        \/ \E s \in Numbers : chosen[s] = op[h] /\ s <= stable[at[h]]

\* pendingRequests holds no handler that has gone, however many handlers wait
\* for one operation and delete each other's entries (waitForCommit).
NoStaleWaiter ==
    \A n \in Nodes, r \in Requests : waiter[n][r] # None =>
        LET h == waiter[n][r] IN pc[h] \in {"waiting", "leaving"} /\ at[h] = n /\ op[h] = r

\* handleUpdates never waits for a handler for good: one that has given up is
\* not blocked on (the channel of waitForCommit has room for what comes late).
\* What it may wait for in vain is a main loop that waits for it (Blocks).
UpdatesGoOn == \A n \in Nodes : ~Idle(n) ~> Idle(n)

\* A handler that has proposed ends, answered or with its process: committed or not,
\* registered in time to be told or not, and though the main loop is blocked
\* (waitForCommit).  One that has yet to propose has no time limit, and gets there
\* unless the main loop has halted (Propose).
EveryRequestAnswered ==
    \A h \in Handlers :
        /\ pc[h] = "proposed" ~> pc[h] = "done"
        /\ pc[h] = "checked" ~> pc[h] = "done" \/ halted[at[h]]

\* docs/design.md, continuity: whoever has a key has it replaced only by an
\* update that this key has signed.
Continuity ==
    \A n \in Nodes : \A i \in 1..Len(store[n]) :
        LET r == store[n][i]
            key == KeyAfter(SubSeq(store[n], 1, i - 1), r.alias)
        IN  key \notin {NoKey, r.key} => r.kind = "update" /\ r.signer = key

=============================================================================
