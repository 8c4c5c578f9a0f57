----------------------------- MODULE NoteForest -----------------------------
(***************************************************************************)
(* The note forest under the three things that change it: notes inserted   *)
(* by Deposit and Transact, governance changing params.tree_depth, and the *)
(* upgrade handler's rebuild of the reverse index.  A failing insertion    *)
(* aborts its transaction, so it is no step at all.                        *)
(***************************************************************************)
EXTENDS ForestStore

CONSTANTS
    TreeDepths,     \* the depths governance may set
    LegacyNotes     \* how many notes a chain older than the index may hold

ASSUME TreeDepthsAssumption ==
    TreeDepths \subseteq Nat \ {0} /\ DefaultTreeDepth \in TreeDepths

ASSUME LegacyAssumption == LegacyNotes \in Nat

VARIABLES
    forest,      \* the store, see ForestStore
    treeDepth    \* params.tree_depth

vars == <<forest, treeDepth>>

-----------------------------------------------------------------------------

(* The default genesis. *)
Init ==
    /\ forest = EmptyForest
    /\ treeDepth = DefaultTreeDepth

AddNote(commitment) ==
    /\ CanInsertNote(forest, commitment)
    /\ forest' = InsertNote(forest, commitment, treeDepth)
    /\ UNCHANGED treeDepth

SetTreeDepth(depth) ==
    /\ treeDepth' = depth
    /\ UNCHANGED forest

Rebuild ==
    /\ forest' = RebuildRootIndex(forest)
    /\ UNCHANGED treeDepth

Next ==
    \/ \E commitment \in Commitment : AddNote(commitment)
    \/ \E depth \in TreeDepths : SetTreeDepth(depth)
    \/ Rebuild

Spec == Init /\ [][Next]_vars

(***************************************************************************)
(* A chain upgraded from a release without the reverse index: its slots    *)
(* are those of some insertions, its index is empty.                       *)
(***************************************************************************)
ForestWith(notes) ==
    LET after[n \in 0..Len(notes)] ==
            IF n = 0 THEN EmptyForest
            ELSE InsertNote(after[n - 1], notes[n], DefaultTreeDepth)
    IN  after[Len(notes)]

InjectiveSeqs(S, n) ==
    {s \in [1..n -> S] : \A i, j \in 1..n : s[i] = s[j] => i = j}

LegacyInit ==
    /\ \E n \in 0..LegacyNotes : \E notes \in InjectiveSeqs(Commitment, n) :
          forest = [ForestWith(notes) EXCEPT !.rootIndex = <<>>]
    /\ treeDepth = DefaultTreeDepth

LegacySpec == LegacyInit /\ [][Next]_vars

-----------------------------------------------------------------------------
(***************************************************************************)
(* Properties.                                                             *)
(***************************************************************************)

TreeIds == Trees(forest)

Roots == HeldRoots(forest.rootSlot) \cup DOMAIN forest.rootIndex \cup {EmptyRoot}

LeavesOf(tree) ==
    [i \in 1..TreeNextIndex(forest, tree) |-> forest.leaf[<<tree, i - 1>>]]

(* The store's shape: each tree has its counter, frontier and current root, *)
(* its leaves fill the indices below the counter, the active tree is the    *)
(* newest, and root slots belong to trees that exist and to ring positions. *)
TypeOK ==
    /\ ForestTypeOK(forest)
    /\ treeDepth \in TreeDepths

(* The reverse index counts, for every root, exactly the slots that hold it: *)
(* an evicted root leaves no entry behind, and a root that two slots share   *)
(* keeps its entry until both are overwritten (setTreeRootIndexed and        *)
(* setRootHistoryIndexed keep the index in step over every displacement).    *)
IndexExact == forest.rootIndex = CountHolders(forest.rootSlot)

(* The lookup through the index answers what the scan over all trees and all *)
(* their slots would (IsValidRootAnyTree against IsKnownRoot).               *)
LookupMatchesScan ==
    \A root \in Roots :
        IsValidRootAnyTree(forest, root) <=>
            root = EmptyRoot \/ \E tree \in TreeIds : IsKnownRoot(forest, tree, root)

(* Even on a chain whose slots predate the index, no entry ever claims more *)
(* slots than hold its root, so nothing expired is accepted while the index *)
(* is incomplete (rootIndexDecr's "untracked value").                       *)
IndexNeverOvercounts ==
    \A root \in DOMAIN forest.rootIndex :
        forest.rootIndex[root] <= Cardinality(Holders(forest.rootSlot, root))

(* A rebuild makes the index exact whatever it held, and it stays exact    *)
(* under every later insertion (RebuildRootIndex, "safe to run at any time *)
(* and as often as needed").                                               *)
RebuildRepairs == [][(Rebuild \/ IndexExact) => IndexExact']_vars

(* A commitment is in the forest at most once, and the used markers are    *)
(* exactly the leaves, across retired trees and depth changes.             *)
LeavesAreUnique == UniqueLeaves(forest)

(* A stored leaf is never moved, overwritten or removed, and a retired tree *)
(* never gets another leaf nor another root.                                *)
HistoryIsAppendOnly ==
    [][/\ \A key \in DOMAIN forest.leaf :
             key \in DOMAIN forest'.leaf /\ forest'.leaf[key] = forest.leaf[key]
       /\ \A tree \in 0..(forest.treeCount - 2) :
             /\ forest'.nextIndex[tree] = forest.nextIndex[tree]
             /\ forest'.rootSlot[TreeRootKey(tree)] = forest.rootSlot[TreeRootKey(tree)]
      ]_vars

IsRootOf(root, leaves) ==
    \E depth \in TreeDepths :
        Len(leaves) <= Width[depth] /\ root = MerkleRoot(leaves, depth)

(* The root of every tree is the Merkle root of its leaves, and each ring  *)
(* slot holds the root of the leaves there were when it was written, at a  *)
(* depth that has been in force and has room for them (merkle_test.go:31). *)
RootsAreMerkleRoots ==
    \A tree \in TreeIds :
        LET leaves == LeavesOf(tree)
        IN  /\ IsRootOf(forest.rootSlot[TreeRootKey(tree)], leaves)
            /\ \A n \in 1..Len(leaves) :
                  n > Len(leaves) - MaxRootHistory =>
                      IsRootOf(forest.rootSlot[RootHistoryKey(tree, (n - 1) % MaxRootHistory)],
                               SubSeq(leaves, 1, n))

-----------------------------------------------------------------------------
(***************************************************************************)
(* Refinement: the ring of a tree, read from the oldest slot still in it,  *)
(* is the tree's window of recent roots.                                   *)
(***************************************************************************)
RecentOf(tree) ==
    LET next == forest.nextIndex[tree]
        size == IF next < MaxRootHistory THEN next ELSE MaxRootHistory
    IN  [i \in 1..size |->
            forest.rootSlot[RootHistoryKey(tree, (next - size + i - 1) % MaxRootHistory)]]

Lookback == INSTANCE RootLookback WITH
    Lookback  <- MaxRootHistory,
    EmptyRoot <- EmptyRoot,
    recent    <- [tree \in TreeIds |-> RecentOf(tree)],
    accepted  <- {root \in Roots : IsValidRootAnyTree(forest, root)}

(* The forest implements the bounded lookback: the accepted roots are the  *)
(* last MaxRootHistory of each tree and the empty root, at every moment.   *)
ImplementsLookback == Lookback!Spec
=============================================================================
