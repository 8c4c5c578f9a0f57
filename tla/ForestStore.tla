---------------------------- MODULE ForestStore -----------------------------
(***************************************************************************)
(* The note forest's part of the module store, and the keeper functions    *)
(* of keeper/merkle.go that read and write it, as operators from a forest  *)
(* to a forest.  A message handler calls several of them in a row, so the  *)
(* modules that model handlers compose these operators.                    *)
(*                                                                         *)
(* A forest is a record with one field per key region of the store:        *)
(*   treeCount, activeTreeId   counters, 0 when the key was never written  *)
(*   nextIndex    tree -> the next leaf's index                            *)
(*   leaf         <<tree, index>> -> commitment                            *)
(*   frontier     tree -> (level -> node)                                  *)
(*   rootSlot     every slot that holds a root: current roots and ring     *)
(*   rootIndex    the reverse index, a bag: root -> number of slots        *)
(*   used         the commitments marked as inserted                       *)
(* A key that was never written is missing from its map.                   *)
(***************************************************************************)
EXTENDS FrontierTree, FiniteSets, BagsExt

CONSTANTS
    Commitment,        \* the note commitments
    MaxRootHistory,    \* the length of each tree's ring of recent roots
    DefaultTreeDepth   \* the depth used while no parameters are stored

ASSUME RootHistoryAssumption == MaxRootHistory \in Nat \ {0}
ASSUME DefaultDepthAssumption == DefaultTreeDepth \in Nat \ {0}

EmptyForest ==
    [treeCount |-> 0, activeTreeId |-> 0, nextIndex |-> <<>>, leaf |-> <<>>,
     frontier |-> <<>>, rootSlot |-> <<>>, rootIndex |-> <<>>, used |-> {}]

TreeRootKey(tree)          == <<"current", tree, 0>>
RootHistoryKey(tree, slot) == <<"history", tree, slot>>

TreeNextIndex(forest, tree) == Get(forest.nextIndex, tree, 0)

-----------------------------------------------------------------------------
(***************************************************************************)
(* The root slots and their reverse index.                                 *)
(***************************************************************************)

RootRefCount(index, root) == Get(index, root, 0)

(* A variant for the runs to refute: the index as a plain set of roots. *)
RootIndexIncrOnce(index, root) ==
    IF root \in DOMAIN index THEN index ELSE BagAdd(index, root)

RootIndexIncr(index, root) == BagAdd(index, root)

(* Variants for the runs to refute: nothing is released on eviction, or the *)
(* whole entry is, whoever else holds the root.                             *)
RootIndexDecrForgets(index, root) == index

RootIndexDecrDeletes(index, root) == [r \in DOMAIN index \ {root} |-> index[r]]

(* A root without an entry -- written before the index existed -- has *)
(* nothing to release.                                                *)
RootIndexDecr(index, root) == BagRemove(index, root)

(* The index once `root` has been written over what `key` held. *)
IndexAfterWrite(slots, index, key, root) ==
    IF key \in DOMAIN slots
    THEN RootIndexDecr(RootIndexIncr(index, root), slots[key])
    ELSE RootIndexIncr(index, root)

(* The body that setTreeRootIndexed and setRootHistoryIndexed share. *)
SetRootIndexed(forest, key, root) ==
    IF key \in DOMAIN forest.rootSlot /\ forest.rootSlot[key] = root
    THEN forest
    ELSE [forest EXCEPT
            !.rootSlot  = Put(forest.rootSlot, key, root),
            !.rootIndex = IndexAfterWrite(forest.rootSlot, forest.rootIndex, key, root)]

SetTreeRootIndexed(forest, tree, root) ==
    SetRootIndexed(forest, TreeRootKey(tree), root)

SetRootHistoryIndexed(forest, tree, slot, root) ==
    SetRootIndexed(forest, RootHistoryKey(tree, slot), root)

(* The slots that hold a root. *)
Holders(slots, root) == {key \in DOMAIN slots : slots[key] = root}

HeldRoots(slots) == {slots[key] : key \in DOMAIN slots}

(* The bag of roots that some slots hold: what the index should be. *)
CountHolders(slots) ==
    [root \in HeldRoots(slots) |-> Cardinality(Holders(slots, root))]

(* A variant for the runs to refute: the scan stops one slot early. *)
ScannedKeysShort(treeCount) ==
    {TreeRootKey(tree) : tree \in 0..(treeCount - 1)} \cup
    {RootHistoryKey(tree, slot) :
        tree \in 0..(treeCount - 1), slot \in 0..(MaxRootHistory - 2)}

(* The slots a scan of the first treeCount trees looks at. *)
ScannedKeys(treeCount) ==
    {TreeRootKey(tree) : tree \in 0..(treeCount - 1)} \cup
    {RootHistoryKey(tree, slot) :
        tree \in 0..(treeCount - 1), slot \in 0..(MaxRootHistory - 1)}

RebuildRootIndex(forest) ==
    LET scanned == ScannedKeys(forest.treeCount) \cap DOMAIN forest.rootSlot
    IN  [forest EXCEPT !.rootIndex =
            CountHolders([key \in scanned |-> forest.rootSlot[key]])]

-----------------------------------------------------------------------------
(***************************************************************************)
(* Inserting a note.                                                       *)
(***************************************************************************)

(* Variants for the runs to refute: the new tree takes the id of the active *)
(* one, or does not become the active one.                                  *)
CreateTreeReusesId(forest, depth) ==
    LET tree == forest.activeTreeId
    IN  [SetTreeRootIndexed(forest, tree, ZeroHash[depth]) EXCEPT
            !.frontier     = Put(forest.frontier, tree,
                                 [level \in 0..(depth - 1) |-> ZeroHash[level]]),
            !.nextIndex    = Put(forest.nextIndex, tree, 0),
            !.treeCount    = tree + 1]

CreateTreeInactive(forest, depth) ==
    LET tree == forest.treeCount
    IN  [SetTreeRootIndexed(forest, tree, ZeroHash[depth]) EXCEPT
            !.frontier     = Put(forest.frontier, tree,
                                 [level \in 0..(depth - 1) |-> ZeroHash[level]]),
            !.nextIndex    = Put(forest.nextIndex, tree, 0),
            !.treeCount    = tree + 1]

CreateTree(forest, depth) ==
    LET tree == forest.treeCount
    IN  [SetTreeRootIndexed(forest, tree, ZeroHash[depth]) EXCEPT
            !.frontier     = Put(forest.frontier, tree,
                                 [level \in 0..(depth - 1) |-> ZeroHash[level]]),
            !.nextIndex    = Put(forest.nextIndex, tree, 0),
            !.treeCount    = tree + 1,
            !.activeTreeId = tree]

EnsureTreeExists(forest, depth) ==
    IF forest.treeCount = 0 THEN CreateTree(forest, depth) ELSE forest

TreeFull(forest, tree, depth) == TreeNextIndex(forest, tree) >= Width[depth]

Frontier(forest, tree) == Get(forest.frontier, tree, <<>>)

(* A variant for the runs to refute: the ring of recent roots is not written. *)
RecordRootCurrentOnly(forest, tree, slot, root) == SetTreeRootIndexed(forest, tree, root)

(* A new root goes to the tree's current root and to the ring. *)
RecordRoot(forest, tree, slot, root) ==
    SetRootHistoryIndexed(SetTreeRootIndexed(forest, tree, root), tree, slot, root)

(* insertLeafIntoTree, called with a tree that is not full. *)
InsertLeafIntoTree(forest, tree, commitment, depth) ==
    LET index == TreeNextIndex(forest, tree)
        old   == Frontier(forest, tree)
        root  == NewRoot(old, commitment, index, depth)
    IN  [RecordRoot(forest, tree, index % MaxRootHistory, root) EXCEPT
            !.leaf      = Put(forest.leaf, <<tree, index>>, commitment),
            !.frontier  = Put(forest.frontier, tree,
                              NewFrontier(old, commitment, index, depth)),
            !.nextIndex = Put(forest.nextIndex, tree, index + 1)]

(* The active tree, or a fresh one when it is full at the depth in force. *)
ForestWithRoom(forest, depth) ==
    LET ensured == EnsureTreeExists(forest, depth)
    IN  IF TreeFull(ensured, ensured.activeTreeId, depth)
        THEN CreateTree(ensured, depth) ELSE ensured

(* A variant for the runs to refute: the used markers are not read. *)
CanInsertNoteAgain(forest, commitment) == TRUE

(* InsertNote fails on a commitment that is in the forest already. *)
CanInsertNote(forest, commitment) == commitment \notin forest.used

InsertNote(forest, commitment, depth) ==
    LET roomy    == ForestWithRoom(forest, depth)
        inserted == InsertLeafIntoTree(roomy, roomy.activeTreeId, commitment, depth)
    IN  [inserted EXCEPT !.used = @ \cup {commitment}]

-----------------------------------------------------------------------------
(***************************************************************************)
(* Which roots a spend may prove against.                                  *)
(***************************************************************************)

EmptyRoot == ZeroHash[DefaultTreeDepth]

(* The scan of one tree's slots. *)
IsKnownRoot(forest, tree, root) ==
    \/ \E key \in {TreeRootKey(tree)} \cup
                  {RootHistoryKey(tree, slot) : slot \in 0..(MaxRootHistory - 1)} :
          key \in DOMAIN forest.rootSlot /\ forest.rootSlot[key] = root
    \/ root = EmptyRoot

(* A variant for the runs to refute: only the active tree is asked. *)
IsValidRootActiveTree(forest, root) ==
    root = EmptyRoot \/ IsKnownRoot(forest, forest.activeTreeId, root)

(* The constant-time lookup that replaced the scan. *)
IsValidRootAnyTree(forest, root) ==
    root = EmptyRoot \/ RootRefCount(forest.rootIndex, root) > 0

-----------------------------------------------------------------------------
(***************************************************************************)
(* What a well-formed forest is, for the invariants of the modules that    *)
(* use this one.                                                           *)
(***************************************************************************)

Trees(forest) == 0..(forest.treeCount - 1)

HasForestFields(forest) ==
    forest = [treeCount    |-> forest.treeCount,
              activeTreeId |-> forest.activeTreeId,
              nextIndex    |-> forest.nextIndex,
              leaf         |-> forest.leaf,
              frontier     |-> forest.frontier,
              rootSlot     |-> forest.rootSlot,
              rootIndex    |-> forest.rootIndex,
              used         |-> forest.used]

(* The counters: the active tree is the newest one. *)
CountersOK(forest) ==
    /\ forest.treeCount \in Nat
    /\ forest.activeTreeId = IF forest.treeCount = 0 THEN 0 ELSE forest.treeCount - 1
    /\ forest.nextIndex \in [Trees(forest) -> Nat]
    /\ DOMAIN forest.frontier = Trees(forest)

(* The leaves of a tree fill the indices below its counter. *)
LeavesOK(forest) ==
    /\ \A key \in DOMAIN forest.leaf :
          \E tree \in Trees(forest) :
             \E i \in 0..(forest.nextIndex[tree] - 1) : key = <<tree, i>>
    /\ \A tree \in Trees(forest) :
          \A i \in 0..(forest.nextIndex[tree] - 1) : <<tree, i>> \in DOMAIN forest.leaf

(* Root slots belong to trees that exist and to ring positions, and every *)
(* tree has its current root.                                             *)
SlotsOK(forest) ==
    /\ forest.rootSlot = [key \in DOMAIN forest.rootSlot |-> forest.rootSlot[key]]
    /\ DOMAIN forest.rootSlot \subseteq ScannedKeys(forest.treeCount)
    /\ \A tree \in Trees(forest) : TreeRootKey(tree) \in DOMAIN forest.rootSlot

(* No commitment is in two places, and the used markers are the leaves. *)
UniqueLeaves(forest) ==
    /\ forest.used = {forest.leaf[key] : key \in DOMAIN forest.leaf}
    /\ \A k1, k2 \in DOMAIN forest.leaf :
          forest.leaf[k1] = forest.leaf[k2] => k1 = k2

ForestShapeOK(forest) ==
    /\ HasForestFields(forest)
    /\ CountersOK(forest)
    /\ LeavesOK(forest)
    /\ SlotsOK(forest)

LeavesAreNotes(forest) ==
    /\ \A key \in DOMAIN forest.leaf : forest.leaf[key] \in Commitment
    /\ forest.used \subseteq Commitment

ForestTypeOK(forest) == ForestShapeOK(forest) /\ LeavesAreNotes(forest)
=============================================================================
