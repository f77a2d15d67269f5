------------------------------- MODULE Delivery -------------------------------
(***************************************************************************)
(* The network as the PBFT modules have it (inFlight and rpcs of PBFTState)*)
(* and as Transport implements it.  A message is handled once or never; it *)
(* gets in only while its receiver is up, but may be handled after that has*)
(* gone down; and a sender that is told of no error knows it is handled or,*)
(* of a client request, that it has got in.                                *)
(***************************************************************************)
CONSTANTS
    Nodes, Calls, To,
    Requests    \* the calls that are client requests

VARIABLES
    progress,   \* call -> how far its message has come
    outcome,    \* call -> what its sender has been told
    down        \* node -> the debug flag

network == <<progress, outcome, down>>

DeliveryInit ==
    /\ progress = [c \in Calls |-> "none"]
    /\ outcome = [c \in Calls |-> "none"]
    /\ down = [n \in Nodes |-> FALSE]

Moves(c, from, to) ==
    /\ progress[c] = from
    /\ progress' = [progress EXCEPT ![c] = to]
    /\ UNCHANGED <<outcome, down>>

Send(c) == Moves(c, "none", "sent")

Accept(c) == ~down[To[c]] /\ Moves(c, "sent", "accepted")

Handle(c) == Moves(c, "accepted", "handled")

Tells(c, what) ==
    /\ outcome[c] = "none"
    /\ outcome' = [outcome EXCEPT ![c] = what]
    /\ UNCHANGED <<progress, down>>

Succeed(c) ==
    /\ progress[c] = "handled" \/ (c \in Requests /\ progress[c] = "accepted")
    /\ Tells(c, "ok")

\* The message may still be on its way, and be handled later.
Fail(c) == progress[c] # "none" /\ Tells(c, "failed")

SetDown(n) ==
    /\ down' = [down EXCEPT ![n] = ~@]
    /\ UNCHANGED <<progress, outcome>>

DeliveryNext ==
    \/ \E c \in Calls : Send(c) \/ Accept(c) \/ Handle(c) \/ Succeed(c) \/ Fail(c)
    \/ \E n \in Nodes : SetDown(n)

DeliverySpec == DeliveryInit /\ [][DeliveryNext]_network

=============================================================================
