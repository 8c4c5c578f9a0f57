------------------------------- MODULE Genesis -------------------------------
(***************************************************************************)
(* Export and import of the module's state (keeper/genesis.go): a chain    *)
(* stops, ExportGenesis writes what its store holds to a genesis state,    *)
(* and InitGenesis of a new chain with an empty store restores it.  The    *)
(* balances travel with x/bank.                                            *)
(*                                                                         *)
(* A frontier level that was never stored is exported as nil, and nil is   *)
(* what import writes.  The SDK's stores panic on a nil value; the         *)
(* repository's tests use a store that keeps it, and a key that holds nil  *)
(* reads like a missing one.                                               *)
(***************************************************************************)
EXTENDS NixPool

CONSTANT StoreTakesNil   \* whether Set accepts a nil value

ASSUME StoreAssumption == StoreTakesNil \in BOOLEAN

(* What Get answers for a missing key: a nil byte slice, which is no node. *)
Nil == <<>>

-----------------------------------------------------------------------------
(***************************************************************************)
(* ExportGenesis.                                                          *)
(***************************************************************************)

(* A variant for the runs to refute: the loop stops one level early. *)
ExportFrontierShort(frontier, depth) ==
    [level \in 0..(depth - 2) |-> Get(frontier, level, Nil)]

(* Levels at and above the depth in force are not looked at. *)
ExportFrontier(frontier, depth) ==
    [level \in 0..(depth - 1) |-> Get(frontier, level, Nil)]

(* The ring's slots in order, without those that hold nothing. *)
ExportRootHistory(tree) ==
    LET kept[n \in 0..MaxRootHistory] ==
            IF n = 0 THEN <<>>
            ELSE LET key == RootHistoryKey(tree, n - 1)
                 IN  IF key \in DOMAIN forest.rootSlot
                     THEN Append(kept[n - 1], forest.rootSlot[key]) ELSE kept[n - 1]
    IN  kept[MaxRootHistory]

TreeState(tree) ==
    [treeId      |-> tree,
     nextIndex   |-> TreeNextIndex(forest, tree),
     commitments |-> [i \in 1..TreeNextIndex(forest, tree) |-> forest.leaf[<<tree, i - 1>>]],
     frontier    |-> ExportFrontier(Frontier(forest, tree), params.treeDepth),
     merkleRoot  |-> forest.rootSlot[TreeRootKey(tree)],
     rootHistory |-> ExportRootHistory(tree)]

ExportGenesis ==
    [params           |-> params,
     treeCount        |-> forest.treeCount,
     activeTreeId     |-> forest.activeTreeId,
     trees            |-> [i \in 1..forest.treeCount |-> TreeState(i - 1)],
     regNextIndex     |-> registration.nextIndex,
     regCommitments   |-> RegLeaves(registration),
     regFrontier      |-> ExportFrontier(registration.frontier, RegTreeDepth),
     regMerkleRoot    |-> GetRegMerkleRoot(registration),
     nullifiers       |-> spent,
     commitmentsUsed  |-> forest.used,
     auditorData      |-> auditorData,
     verificationKeys |-> vks]

-----------------------------------------------------------------------------
(***************************************************************************)
(* InitGenesis, over an empty store.                                       *)
(***************************************************************************)

ImportFrontier(levels) ==
    [level \in {l \in DOMAIN levels : levels[l] # Nil} |-> levels[level]]

(* A variant for the runs to refute: the roots are written past the index. *)
ImportRootsRaw(f, tree, state) ==
    LET slots == {RootHistoryKey(tree, i - 1) : i \in DOMAIN state.rootHistory}
    IN  [f EXCEPT !.rootSlot =
            [key \in DOMAIN f.rootSlot \cup {TreeRootKey(tree)} \cup slots |->
                IF key \in slots THEN state.rootHistory[key[3] + 1]
                ELSE Get(f.rootSlot, key, state.merkleRoot)]]

(* Through the indexed setters; the ring is filled from slot 0. *)
ImportRoots(f, tree, state) ==
    LET after[n \in 0..Len(state.rootHistory)] ==
            IF n = 0 THEN SetTreeRootIndexed(f, tree, state.merkleRoot)
            ELSE SetRootHistoryIndexed(after[n - 1], tree, n - 1, state.rootHistory[n])
    IN  after[Len(state.rootHistory)]

ImportTree(f, state) ==
    LET tree   == state.treeId
        placed == {<<tree, i - 1>> : i \in DOMAIN state.commitments}
    IN  [ImportRoots(f, tree, state) EXCEPT
            !.leaf      = [key \in DOMAIN f.leaf \cup placed |->
                              IF key \in placed THEN state.commitments[key[2] + 1]
                              ELSE f.leaf[key]],
            !.frontier  = Put(f.frontier, tree, ImportFrontier(state.frontier)),
            !.nextIndex = IF state.nextIndex > 0
                          THEN Put(f.nextIndex, tree, state.nextIndex) ELSE f.nextIndex]

(* The trees of the file, one after the other. *)
ImportTrees(gs) ==
    LET after[n \in 0..Len(gs.trees)] ==
            IF n = 0 THEN EmptyForest ELSE ImportTree(after[n - 1], gs.trees[n])
    IN  after[Len(gs.trees)]

(* A variant for the runs to refute: the used markers are not restored. *)
ImportForestUnmarked(gs) ==
    [ImportTrees(gs) EXCEPT !.treeCount = gs.treeCount, !.activeTreeId = gs.activeTreeId]

ImportForest(gs) ==
    [ImportTrees(gs) EXCEPT
        !.treeCount    = gs.treeCount,
        !.activeTreeId = gs.activeTreeId,
        !.used         = gs.commitmentsUsed]

(* The used markers are derived from the list of commitments. *)
ImportRegistration(gs) ==
    [nextIndex |-> gs.regNextIndex,
     leaf      |-> [i \in 0..(gs.regNextIndex - 1) |-> gs.regCommitments[i + 1]],
     frontier  |-> ImportFrontier(gs.regFrontier),
     root      |-> Put(<<>>, RegRootKey, gs.regMerkleRoot),
     used      |-> {gs.regCommitments[i] : i \in DOMAIN gs.regCommitments}]

NoNil(levels) == \A level \in DOMAIN levels : levels[level] # Nil

NoLevelMissing(gs) ==
    /\ NoNil(gs.regFrontier)
    /\ \A i \in DOMAIN gs.trees : NoNil(gs.trees[i].frontier)

(* Every value that import sets is one the store takes. *)
Importable(gs) == StoreTakesNil \/ NoLevelMissing(gs)

Restart ==
    LET gs == ExportGenesis
    IN  /\ Importable(gs)
        /\ forest' = ImportForest(gs)
        /\ registration' = ImportRegistration(gs)
        /\ params' = gs.params
        /\ vks' = gs.verificationKeys
        /\ spent' = gs.nullifiers
        /\ auditorData' = gs.auditorData
        /\ txHash' = Unset
        /\ UNCHANGED <<escrow, wallet>>

RestartNext == Next \/ Restart

RestartSpec == Init /\ [][RestartNext]_vars

-----------------------------------------------------------------------------
(***************************************************************************)
(* Properties.                                                             *)
(***************************************************************************)

FrontierInForce(f) ==
    [tree \in Trees(f) |->
        [level \in 0..(params.treeDepth - 1) |-> LeftSibling(f.frontier[tree], level)]]

(* A restart changes nothing an insertion or a spend can see: the same      *)
(* leaves, counters, markers, roots in the same slots and reverse index,   *)
(* and at every level of the depth in force the same left sibling; of the   *)
(* registration tree everything but that its root is now stored even if it *)
(* is empty (ExportGenesis and InitGenesis, which does not export the index *)
(* but rebuilds it through the indexed setters).                           *)
RestartIsInvisible ==
    [][Restart =>
        /\ [forest' EXCEPT !.frontier = forest.frontier] = forest
        /\ FrontierInForce(forest') = FrontierInForce(forest)
        /\ [registration' EXCEPT !.root = registration.root] = registration
        /\ GetRegMerkleRoot(registration') = GetRegMerkleRoot(registration)]_vars

(* What a chain that holds notes exports, a new chain can import:           *)
(* rootindex_test.go:253 calls it "the migration path", and requires it of  *)
(* a chain with notes on which nobody has registered.                       *)
ExportIsImportable == Notes # {} => Importable(ExportGenesis)

(* The export is "the full nixpool state" (genesis.go:155): importing it    *)
(* gives the forest back, each tree's frontier included.                    *)
ExportIsComplete == ImportForest(ExportGenesis) = forest

(* The frontier levels that a tree of notes has stored. *)
LevelsOf(tree) == DOMAIN forest.frontier[tree]

(* The export leaves out exactly the frontier levels that trees have from a *)
(* time when the depth was greater: without them the import gives the       *)
(* forest back as it was, with one of them it does not (ExportGenesis's     *)
(* loop over the depth in force).                                           *)
LossIsAboveDepth ==
    ExportIsComplete <=>
        \A tree \in Trees(forest) : LevelsOf(tree) \subseteq 0..(params.treeDepth - 1)

(* The export has every level it lists exactly if somebody has registered   *)
(* and no tree of notes lacks a frontier level below the depth in force:    *)
(* else a level is nil, and the SDK's stores stop the new chain at it       *)
(* (createTree and the first registration write all levels of their depth). *)
NilsAreGaps ==
    NoLevelMissing(ExportGenesis) <=>
        /\ registration.nextIndex > 0
        /\ \A tree \in Trees(forest) : 0..(params.treeDepth - 1) \subseteq LevelsOf(tree)
=============================================================================
