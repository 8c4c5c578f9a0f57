------------------------------- MODULE Queries -------------------------------
(***************************************************************************)
(* The query server of keeper/query_server.go: what a client can learn of  *)
(* the store.  A query reads one committed state and changes nothing.      *)
(***************************************************************************)
EXTENDS NixPool

GetTreeRoot(tree) == Get(forest.rootSlot, TreeRootKey(tree), EmptyRoot)

(* The root of the active tree: no query answers for a retired one. *)
Root == GetTreeRoot(forest.activeTreeId)

NullifierStatus(nullifier) == nullifier \in spent

(* The depth is the compiled-in default, whatever the parameter says. *)
TreeInfo ==
    [root         |-> Root,
     nextIndex    |-> TreeNextIndex(forest, forest.activeTreeId),
     depth        |-> DefaultTreeDepth,
     activeTreeId |-> forest.activeTreeId,
     treeCount    |-> forest.treeCount]

RegistrationRoot == GetRegMerkleRoot(registration)

Params == params

AuditorKey == params.auditorPubKey

SupportedDenoms == params.supportedDenoms

(* No query lists leaves: clients learn them from the responses of the *)
(* messages that inserted them.                                        *)
LeavesOf(tree) == [i \in 1..TreeNextIndex(forest, tree) |-> forest.leaf[<<tree, i - 1>>]]
=============================================================================
