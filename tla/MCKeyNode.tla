------------------------------ MODULE MCKeyNode ------------------------------
(***************************************************************************)
(* Values for the constants of KeyNode: one user, whose key is issued and  *)
(* may be replaced, and two key nodes, p the primary.                      *)
(***************************************************************************)
EXTENDS KeyNode, TLC

CONSTANTS x, k1, k2, p, b, h1, h2

create(key) == [kind |-> "create", alias |-> x, key |-> key, signer |-> NoKey]

update(key, signer) == [kind |-> "update", alias |-> x, key |-> key, signer |-> signer]

NoKeys == [alias \in {x} |-> NoKey]

\* The user's first key is issued once, and replaced once.
IssueAndReplace == {create(k1), update(k2, k1)}

\* The authority has issued two keys for one alias.
IssueTwice == {create(k1), create(k2)}

\* Both clients ask the backup, whose requests go the longer way, or the primary.
AskBackup == [h \in Handlers |-> {b}]

AskPrimary == [h \in Handlers |-> {p}]

=============================================================================
