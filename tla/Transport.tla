------------------------------- MODULE Transport -------------------------------
(***************************************************************************)
(* One message from one node to another (sendRpc in src/pbft/node.go,      *)
(* SendRpc in util/shared.go, the RPC methods of PBFTNode): the main loop  *)
(* signs it and starts a goroutine, which dials, encodes the message,      *)
(* calls, and waits for at most a second; at the other end a goroutine of  *)
(* the RPC server runs the method, which gives the message to the main     *)
(* loop over a channel.  Only the channel for client requests has room.    *)
(*                                                                         *)
(* Of four kinds of message it matters here what they hold, or do:         *)
(*   ViewChange     the prepares of the slots its sender has prepared; the *)
(*                  numbers of these slots are the keys of a map;          *)
(*   NewView        the view changes its sender has received;              *)
(*   Prepare        adds to the prepares of its receiver;                  *)
(*   ClientRequest  goes through the channel with room.                    *)
(* The others are sent and handled as these are, and touch none of the     *)
(* maps.  A signature is over the JSON form of the message.  The goroutine *)
(* gets the maps themselves, not copies, and the main loop goes on writing *)
(* to them.                                                                *)
(***************************************************************************)
EXTENDS Integers, Sequences, FiniteSets

CONSTANTS
    Nodes,      \* node ids
    Calls,      \* bound: the messages that are sent, each to one peer
    From, To,   \* call -> its sender, its receiver
    Kind,       \* call -> the RPC method it calls
    ProofSets,  \* bound: the sets of sequence numbers a view change has proofs for
    Room,       \* the capacity of requestChannel, 10 in the code
    Retries,    \* the argument rpcRetries of SendRpc
    Heard,      \* bound: node -> the senders of view changes it has got before
    Droppable   \* bound: the nodes the debug REPL may take down

Kinds == {"ViewChange", "NewView", "Prepare", "ClientRequest"}

ASSUME TransportAssumption ==
    /\ From \in [Calls -> Nodes] /\ To \in [Calls -> Nodes]
    /\ Kind \in [Calls -> Kinds] /\ ProofSets \subseteq SUBSET Nat
    /\ Nodes \subseteq Nat /\ Heard \in [Nodes -> SUBSET Nodes] /\ Droppable \subseteq Nodes
    /\ Room \in Nat \ {0} /\ Retries \in Nat

VARIABLES
    sender,     \* call -> where its goroutine is
    server,     \* call -> where the RPC method of its receiver is
    redials,    \* call -> nRetries, how often it has dialled again
    proofs,     \* call -> the sequence numbers it has proofs for
    signed,     \* call -> the form of the numbers, and the votes, its signature is over
    decoded,    \* call -> the votes its receiver has decoded
    verdict,    \* call -> what its receiver's handler has made of it
    channel,    \* node -> requestChannel
    prepares,   \* node -> the senders of prepares, in a slot it has prepared
    messages,   \* node -> the senders of view changes
    inProgress, \* node -> it is changing view
    down,       \* node -> the debug flag
    up          \* node -> its process has not died

senderVars == <<sender, redials, proofs, signed>>

voteVars == <<prepares, messages, inProgress>>

vars == <<senderVars, voteVars, server, decoded, verdict, channel, down, up>>

\* Every variable holds what its goroutine, or its Go type, may make of it.
TypeOK ==
    /\ sender \in [Calls -> {"idle", "dialling", "encoding", "waiting", "ok", "failed"}]
    /\ server \in [Calls -> {"none", "called", "refused", "blocked", "buffered", "taken"}]
    /\ redials \in [Calls -> Nat] /\ proofs \in [Calls -> SUBSET Nat]
    /\ signed \in [Calls -> [numbers : SUBSET Nat, votes : SUBSET Nodes]]
    /\ decoded \in [Calls -> SUBSET Nodes]
    /\ verdict \in [Calls -> {"none", "handled", "rejected"}]
    /\ channel \in [Nodes -> Seq(Calls)]
    /\ prepares \in [Nodes -> SUBSET Nodes] /\ messages \in [Nodes -> SUBSET Nodes]
    /\ inProgress \in [Nodes -> BOOLEAN] /\ down \in [Nodes -> BOOLEAN]
    /\ up \in [Nodes -> BOOLEAN]

\* A slot that is prepared has its node's own prepare.
Init ==
    /\ sender = [c \in Calls |-> "idle"]
    /\ server = [c \in Calls |-> "none"]
    /\ redials = [c \in Calls |-> 0]
    /\ proofs = [c \in Calls |-> {}]
    /\ signed = [c \in Calls |-> [numbers |-> {}, votes |-> {}]]
    /\ decoded = [c \in Calls |-> {}]
    /\ verdict = [c \in Calls |-> "none"]
    /\ channel = [n \in Nodes |-> <<>>]
    /\ prepares = [n \in Nodes |-> {n}]
    /\ messages = Heard
    /\ inProgress = [n \in Nodes |-> FALSE]
    /\ down = [n \in Nodes |-> FALSE]
    /\ up = [n \in Nodes |-> TRUE]

-----------------------------------------------------------------------------
(* What is signed, and what is sent. *)

\* string(k) makes a key of the byte.
LowByte(k) == k % 256

\* string(k) is the character of code k; what is no character gives U+FFFD.
Character(k) == IF k > 1114111 \/ (55295 < k /\ k < 57344) THEN 65533 ELSE k

\* The JSON forms of a map (MarshalJSON of the map types in messages.go).  Of the
\* entries that come out under one key one is left, whichever is visited last; an
\* entry is told by its own number.
Forms(map) ==
    {left \in SUBSET map : \A k \in map :
        \E e \in left : {d \in left : Character(d) = Character(k)} = {e}}

\* The votes in a message now: slot.prepares, n.viewChange.messages.
Votes(c) ==
    CASE Kind[c] = "ViewChange" -> prepares[From[c]]
      [] Kind[c] = "NewView"    -> messages[From[c]]
      [] OTHER                  -> {}

\* What a signature over a message with these numbers and votes may be over.
Signable(numbers, votes) ==
    {[numbers |-> form, votes |-> votes] : form \in Forms(numbers)}

-----------------------------------------------------------------------------
(* The sender. *)

\* Asking for a view begins a change of view, announcing one ends it; prepares and
\* requests are sent in between.
ChangesView(n, kind) ==
    \/ /\ kind = "ViewChange" /\ ~inProgress[n] /\ ~down[n]
       /\ inProgress' = [inProgress EXCEPT ![n] = TRUE]
    \/ /\ kind = "NewView" /\ messages[n] # {}
       /\ inProgress' = [inProgress EXCEPT ![n] = FALSE]
    \/ /\ kind \in {"Prepare", "ClientRequest"} /\ ~inProgress[n]
       /\ UNCHANGED inProgress

\* The main loop signs, in some handler, and starts the goroutine.
Sign(c) ==
    /\ up[From[c]] /\ sender[c] = "idle"
    /\ ChangesView(From[c], Kind[c])
    /\ sender' = [sender EXCEPT ![c] = "dialling"]
    /\ \E numbers \in IF Kind[c] = "ViewChange" THEN ProofSets ELSE {{}} :
          /\ proofs' = [proofs EXCEPT ![c] = numbers]
          /\ \E form \in Signable(numbers, Votes(c)) : signed' = [signed EXCEPT ![c] = form]
    /\ UNCHANGED <<server, redials, decoded, verdict, channel, prepares, messages,
                   down, up>>

\* The condition of the retry loop: it is false at once.
DialsAgain(c) == Retries < redials[c]

\* A dial may fail though the peer listens, and fails if it does not.
Dial(c) ==
    /\ up[From[c]] /\ sender[c] = "dialling"
    /\ \/ /\ up[To[c]]
          /\ sender' = [sender EXCEPT ![c] = "encoding"]
          /\ UNCHANGED redials
       \/ /\ redials' = [redials EXCEPT ![c] = IF DialsAgain(c) THEN @ + 1 ELSE @]
          /\ sender' = [sender EXCEPT ![c] = IF DialsAgain(c) THEN @ ELSE "failed"]
    /\ UNCHANGED <<voteVars, server, proofs, signed, decoded, verdict, channel, down, up>>

\* rpcClient.Go encodes the message, as it is now, and sends it.
Call(c) ==
    /\ up[From[c]] /\ sender[c] = "encoding"
    /\ sender' = [sender EXCEPT ![c] = "waiting"]
    /\ server' = [server EXCEPT ![c] = "called"]
    /\ decoded' = [decoded EXCEPT ![c] = Votes(c)]
    /\ UNCHANGED <<voteVars, redials, proofs, signed, verdict, channel, down, up>>

\* The method has returned without an error: its send has come through.
Done(c) == server[c] \in {"buffered", "taken"}

Returns(c) ==
    /\ up[From[c]] /\ sender[c] = "waiting" /\ (Done(c) \/ server[c] = "refused")
    /\ sender' = [sender EXCEPT ![c] = IF Done(c) THEN "ok" ELSE "failed"]
    /\ UNCHANGED <<voteVars, server, redials, proofs, signed, decoded, verdict, channel,
                   down, up>>

NeverWaitsLong(c) == FALSE

\* A timeout of 0, which is what sendRpc passes whatever it is given, is a second.
WaitsLong(c) == TRUE

TimesOut(c) ==
    /\ up[From[c]] /\ sender[c] = "waiting" /\ WaitsLong(c)
    /\ sender' = [sender EXCEPT ![c] = "failed"]
    /\ UNCHANGED <<voteVars, server, redials, proofs, signed, decoded, verdict, channel,
                   down, up>>

-----------------------------------------------------------------------------
(* The receiver. *)

NeverRefuses(n) == FALSE

Refuses(n) == down[n]

\* The method runs on a copy of the node: it looks at `down' now, and then sends on
\* a channel, for as long as that takes.
Arrives(c) ==
    /\ up[To[c]] /\ server[c] = "called"
    /\ server' = [server EXCEPT ![c] = IF Refuses(To[c]) THEN "refused" ELSE "blocked"]
    /\ UNCHANGED <<senderVars, voteVars, decoded, verdict, channel, down, up>>

HasRoom(n) == Len(channel[n]) < Room

\* ClientRequest: the request is in the channel, and the method returns.
Buffer(c) ==
    /\ up[To[c]] /\ server[c] = "blocked" /\ Kind[c] = "ClientRequest"
    /\ HasRoom(To[c])
    /\ server' = [server EXCEPT ![c] = "buffered"]
    /\ channel' = [channel EXCEPT ![To[c]] = Append(@, c)]
    /\ UNCHANGED <<senderVars, voteVars, decoded, verdict, down, up>>

\* A goroutine of the node is encoding the map in a message of this kind.
Encoding(n, kind) == \E c \in Calls : From[c] = n /\ Kind[c] = kind /\ sender[c] = "encoding"

\* To write to a map that a goroutine reads may be a fatal error.
Writes(n, kind) ==
    \/ UNCHANGED up
    \/ Encoding(n, kind) /\ up' = [up EXCEPT ![n] = FALSE]

HandlePrepare(n, c) ==
    /\ Kind[c] = "Prepare" /\ ~inProgress[n]
    /\ prepares' = [prepares EXCEPT ![n] = @ \cup {From[c]}]
    /\ Writes(n, "ViewChange")
    /\ UNCHANGED <<messages, inProgress>>

\* A signature is valid if it is over the form, which may be another each time, of
\* what was decoded.
HandleViewChange(n, c) ==
    /\ Kind[c] = "ViewChange" /\ signed[c] \in Signable(proofs[c], decoded[c])
    /\ messages' = [messages EXCEPT ![n] = @ \cup {From[c]}]
    /\ Writes(n, "NewView")
    /\ UNCHANGED <<prepares, inProgress>>

RejectViewChange(n, c) ==
    /\ Kind[c] = "ViewChange" /\ Signable(proofs[c], decoded[c]) # {signed[c]}
    /\ UNCHANGED <<voteVars, up>>

\* The check of a NewView's signature is commented out.  It is for the view its
\* receiver has asked for; others change nothing, and are left out.
HandleNewView(n, c) ==
    /\ Kind[c] = "NewView"
    /\ inProgress' = [inProgress EXCEPT ![n] = FALSE]
    /\ UNCHANGED <<prepares, messages, up>>

\* A request, or a prepare that comes while its receiver is changing view.
HandleOther(n, c) ==
    /\ Kind[c] = "ClientRequest" \/ (Kind[c] = "Prepare" /\ inProgress[n])
    /\ UNCHANGED <<voteVars, up>>

\* The handler of c runs at node n.
Handles(n, c) ==
    \/ /\ verdict' = [verdict EXCEPT ![c] = "handled"]
       /\ \/ HandlePrepare(n, c) \/ HandleViewChange(n, c)
          \/ HandleNewView(n, c) \/ HandleOther(n, c)
    \/ /\ verdict' = [verdict EXCEPT ![c] = "rejected"]
       /\ RejectViewChange(n, c)

\* The main loop takes a message from a method that waits, which returns.
Take(c) ==
    /\ up[To[c]] /\ server[c] = "blocked" /\ Kind[c] # "ClientRequest"
    /\ server' = [server EXCEPT ![c] = "taken"]
    /\ Handles(To[c], c)
    /\ UNCHANGED <<senderVars, decoded, channel, down>>

\* The main loop takes a request from its channel.
TakeRequest(n) ==
    /\ up[n] /\ channel[n] # <<>>
    /\ channel' = [channel EXCEPT ![n] = Tail(@)]
    /\ server' = [server EXCEPT ![Head(channel[n])] = "taken"]
    /\ Handles(n, Head(channel[n]))
    /\ UNCHANGED <<senderVars, decoded, down>>

SetDown(n) ==
    /\ up[n] /\ n \in Droppable
    /\ down' = [down EXCEPT ![n] = ~@]
    /\ UNCHANGED <<senderVars, voteVars, server, decoded, verdict, channel, up>>

-----------------------------------------------------------------------------
Next ==
    \/ \E c \in Calls : Sign(c)
    \/ \E c \in Calls : Dial(c)
    \/ \E c \in Calls : Call(c)
    \/ \E c \in Calls : Returns(c)
    \/ \E c \in Calls : TimesOut(c)
    \/ \E c \in Calls : Arrives(c)
    \/ \E c \in Calls : Buffer(c)
    \/ \E c \in Calls : Take(c)
    \/ \E n \in Nodes : TakeRequest(n)
    \/ \E n \in Nodes : SetDown(n)

Spec == Init /\ [][Next]_vars

\* The sending goroutine is scheduled, its dial ends, and its clock runs.
Fairness == \A c \in Calls : WF_vars(Dial(c) \/ Call(c) \/ Returns(c) \/ TimesOut(c))

FairSpec == Spec /\ Fairness

-----------------------------------------------------------------------------
\* How far a message has come, and what its sender has been told, in Delivery.
Progress(c) ==
    CASE server[c] = "taken"                   -> "handled"
      [] server[c] \in {"blocked", "buffered"} -> "accepted"
      [] OTHER -> IF sender[c] = "idle" THEN "none" ELSE "sent"

Outcome(c) == IF sender[c] \in {"ok", "failed"} THEN sender[c] ELSE "none"

D == INSTANCE Delivery WITH
        Requests <- {c \in Calls : Kind[c] = "ClientRequest"},
        progress <- [c \in Calls |-> Progress(c)],
        outcome  <- [c \in Calls |-> Outcome(c)]

\* Goroutines, dial, timeout and channels come to what the PBFT modules assume of
\* the network: once or never, in only while the receiver is up, and no error only
\* if the receiver's main loop has the message, or has a client request in its
\* channel, where it may stay for good (SendRpc, the RPC methods).
RefinesDelivery == D!DeliverySpec

\* A message of an honest node is rejected only if it is a view change with a number
\* beyond 55295, or one to whose prepares its sender has added between signing and
\* encoding it: below that, string(int) keys (messages.go) never make two entries
\* one.  A NewView is never rejected, whatever its map has become.
RejectedForCause ==
    \A c \in Calls : verdict[c] = "rejected" =>
        /\ Kind[c] = "ViewChange"
        /\ (\E k \in proofs[c] : k > 55295) \/ signed[c].votes # decoded[c]

\* No goroutine of a node that runs waits for good, whatever its peer does: the
\* method it has called may stay blocked on a channel that nobody reads.
EveryCallEnds ==
    \A c \in Calls : sender[c] # "idle" ~> sender[c] \in {"ok", "failed"} \/ ~up[From[c]]

=============================================================================
