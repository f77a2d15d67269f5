-------------------------------- MODULE Ledger --------------------------------
(***************************************************************************)
(* What PBFT promises to the key stores while nobody leaves the first      *)
(* view, without messages and votes.  The primary numbers the requests;    *)
(* a node gets to know them, and executes numbers, in any order; a number  *)
(* executed before its request is known is executed in vain.  A node that  *)
(* reaches a multiple of CHECKPOINT takes a snapshot of its key store, and *)
(* one that trusts a snapshot forgets some of what came before.            *)
(*                                                                         *)
(* The nodes of src/pbft implement this (RefinesLedger in PBFT); the key   *)
(* nodes of src/distributepki are built on it (KeyNode).                   *)
(***************************************************************************)
EXTENDS Integers, Sequences

CONSTANTS
    Nodes,      \* the members of the cluster
    Requests,   \* client operations
    Nil,        \* no request
    CHECKPOINT, \* sequence numbers between two checkpoints
    MaxSeq      \* bound: the last number the primary gives

ASSUME NilAssumption == Nil \notin Requests
ASSUME NumbersAssumption == MaxSeq \in Nat /\ CHECKPOINT \in Nat \ {0}

\* Numbers start after 1, the number every node starts from.
Numbers == 2..MaxSeq

VARIABLES
    chosen,   \* number -> the request the primary gave it, or Nil
    known,    \* node -> numbers whose request the node holds
    executed, \* node -> numbers the node has executed
    reached,  \* node -> the highest number it has executed or been taken to
    stable,   \* node -> the number of the snapshot it trusts
    store,    \* node -> the operations its key store has applied
    taken,    \* every snapshot of a checkpoint, with its number
    halted    \* node -> it does nothing any more

ledger == <<chosen, known, executed, reached, stable, store, taken, halted>>

SnapshotAt(number, operations) == [number |-> number, snapshot |-> operations]

LedgerTypeOK ==
    /\ chosen \in [Numbers -> Requests \cup {Nil}]
    /\ known \in [Nodes -> SUBSET Numbers]
    /\ executed \in [Nodes -> SUBSET Numbers]
    /\ reached \in [Nodes -> Nat]
    /\ stable \in [Nodes -> Nat]
    /\ store \in [Nodes -> Seq(Requests)]
    /\ taken \subseteq [number : Nat, snapshot : Seq(Requests)]
    /\ halted \in [Nodes -> BOOLEAN]

LedgerInit ==
    /\ chosen = [s \in Numbers |-> Nil]
    /\ known = [n \in Nodes |-> {}]
    /\ executed = [n \in Nodes |-> {}]
    /\ reached = [n \in Nodes |-> 1]
    /\ stable = [n \in Nodes |-> 0]
    /\ store = [n \in Nodes |-> <<>>]
    /\ taken = {}
    /\ halted = [n \in Nodes |-> FALSE]

-----------------------------------------------------------------------------
(* The steps of the ledger. *)

IsChosen(r) == \E s \in Numbers : chosen[s] = r

\* A request gets the next number, once.
Choose(r, s) ==
    /\ chosen[s] = Nil /\ \A t \in Numbers : t < s => chosen[t] # Nil
    /\ ~IsChosen(r)
    /\ chosen' = [chosen EXCEPT ![s] = r]
    /\ UNCHANGED <<executed, reached, stable, store, taken, halted>>

\* The primary knows what it chooses.
ChooseAt(n, r, s) ==
    /\ ~halted[n]
    /\ Choose(r, s)
    /\ known' = [known EXCEPT ![n] = @ \cup {s}]

Learn(n, s) ==
    /\ ~halted[n] /\ s \notin known[n]
    /\ chosen[s] # Nil /\ s > stable[n]
    /\ known' = [known EXCEPT ![n] = @ \cup {s}]
    /\ UNCHANGED <<chosen, executed, reached, stable, store, taken, halted>>

Later(s, t) == IF s > t THEN s ELSE t

\* The number of the trusted snapshot may still be executed: handleCommit looks
\* away only from what is before it.
MayExecute(n, s) == s >= stable[n]

ExecutionOfNil(n, s) == Append(store[n], IF s \in known[n] THEN chosen[s] ELSE Nil)

\* What the node executes under a number: nothing, if it does not know the request.
Execution(n, s) == IF s \in known[n] THEN Append(store[n], chosen[s]) ELSE store[n]

Execute(n, s) ==
    /\ ~halted[n] /\ s \notin executed[n]
    /\ chosen[s] # Nil /\ MayExecute(n, s)
    /\ executed' = [executed EXCEPT ![n] = @ \cup {s}]
    /\ reached' = [reached EXCEPT ![n] = Later(@, s)]
    /\ store' = [store EXCEPT ![n] = Execution(n, s)]
    /\ taken' = taken \cup (IF Later(reached[n], s) % CHECKPOINT = 0
                            THEN {SnapshotAt(Later(reached[n], s), Execution(n, s))} ELSE {})
    /\ UNCHANGED <<chosen, known, stable, halted>>

\* The node takes on a snapshot if it has not reached its number, and forgets some
\* of the numbers up to that.
Stabilise(n, t) ==
    /\ ~halted[n]
    /\ t \in taken /\ t.number >= stable[n]
    /\ stable' = [stable EXCEPT ![n] = t.number]
    /\ reached' = [reached EXCEPT ![n] = Later(@, t.number)]
    /\ store' = [store EXCEPT ![n] = IF reached[n] < t.number THEN t.snapshot ELSE @]
    /\ \E forgotten \in SUBSET {s \in Numbers : s <= t.number} :
          /\ known' = [known EXCEPT ![n] = @ \ forgotten]
          /\ executed' = [executed EXCEPT ![n] = @ \ forgotten]
    /\ UNCHANGED <<chosen, taken, halted>>

\* A node stops for good, maybe in the middle of a step that it began.
Halt(n) ==
    /\ ~halted[n]
    /\ halted' = [halted EXCEPT ![n] = TRUE]
    /\ known' \in [Nodes -> SUBSET Numbers] /\ executed' \in [Nodes -> SUBSET Numbers]
    /\ reached' \in [Nodes -> Nat] /\ stable' \in [Nodes -> Nat]
    /\ \A m \in Nodes \ {n} :
          UNCHANGED <<known[m], executed[m], reached[m], stable[m]>>
    /\ UNCHANGED <<chosen, store, taken>>

LedgerNext ==
    \/ \E n \in Nodes, r \in Requests, s \in Numbers : ChooseAt(n, r, s)
    \/ \E n \in Nodes, s \in Numbers : Learn(n, s)
    \/ \E n \in Nodes, s \in Numbers : Execute(n, s)
    \/ \E n \in Nodes, t \in taken : Stabilise(n, t)
    \/ \E n \in Nodes : Halt(n)

\* Stuttering is named first because most steps of an implementation are that.
LedgerSpec == LedgerInit /\ [][UNCHANGED ledger \/ LedgerNext]_ledger

=============================================================================
