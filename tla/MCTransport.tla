------------------------------ MODULE MCTransport ------------------------------
(***************************************************************************)
(* Values for the constants of Transport.  Node 1 asks node 2 for its view *)
(* (a), node 2, which node 3 has asked before, announces it to node 1 (w), *)
(* which then counts a late prepare of node 3 (p): both maps may grow while*)
(* they are sent.  Node 1 also forwards a request (r).                     *)
(***************************************************************************)
EXTENDS Transport

CONSTANTS a, w, p, r

FromNodes == [c \in Calls |-> CASE c = w -> 2 [] c = p -> 3 [] OTHER -> 1]

ToNodes == [c \in Calls |-> IF c \in {w, p} THEN 1 ELSE 2]

Methods == [c \in Calls |-> CASE c = a -> "ViewChange"
                              [] c = w -> "NewView"
                              [] c = p -> "Prepare"
                              [] c = r -> "ClientRequest"]

Asked == [n \in Nodes |-> IF n = 2 THEN {3} ELSE {}]

\* Numbers on both sides of each border of Character.
SomeProofs == {{1, 257, 55295}, {55296, 57344, 65533}}

=============================================================================
