-------------------------- MODULE NoteForestProofs --------------------------
(***************************************************************************)
(* For every set of commitments, ring length, number of trees and sequence *)
(* of depths: the store keeps its shape and the reverse index counts       *)
(* exactly the slots that hold each root, so its lookup agrees with the    *)
(* scan it replaced; no commitment is ever in two leaves, no leaf moves or *)
(* is lost; at one depth every root is a Merkle root; and the forest       *)
(* implements the abstract lookback.                                       *)
(***************************************************************************)
EXTENDS NoteForest, ForestStoreProofs

-----------------------------------------------------------------------------
(***************************************************************************)
(* Theorems about every behaviour.                                         *)
(***************************************************************************)

(* What every step keeps, whatever the index holds.  The parts need each   *)
(* other: that a new leaf's place is free needs the leaves to fill their    *)
(* indices; that a rebuild finds every slot needs the slots to belong to    *)
(* existing trees.                                                          *)
SInv ==
    /\ Good(forest) /\ UniqueLeaves(forest) /\ LeavesAreNotes(forest)
    /\ treeDepth \in TreeDepths

(* The inductive invariant of a chain that always had the index: a release *)
(* leaves the right count only in an exact one.                            *)
IInv == SInv /\ Exact(forest)

(* That of a chain older than the index. *)
LInv == SInv /\ Undercounts(forest)

(* The default genesis satisfies the first. *)
LEMMA InitGood == Init => IInv
  <1> SUFFICES ASSUME Init PROVE IInv
    OBVIOUS
  <1>1. /\ Good(forest) /\ UniqueLeaves(forest) /\ LeavesAreNotes(forest)
        /\ Exact(forest)
    BY EmptyForestGood DEF Init
  <1>2. treeDepth \in TreeDepths
    BY TreeDepthsAssumption DEF Init
  <1> QED
    BY <1>1, <1>2 DEF IInv, SInv

(* Every step keeps all of them: insertion, change of depth and rebuild. *)
LEMMA StepKeeps ==
    ASSUME SInv, [Next]_vars
    PROVE  SInv' /\ (Exact(forest) => Exact(forest')) /\ (Undercounts(forest) => Undercounts(forest'))
  <1>1. ASSUME NEW commitment \in Commitment, AddNote(commitment)
        PROVE  SInv' /\ IndexKept(forest, forest')
    BY <1>1, InsertNoteGood, InsertNoteUnique, InsertNoteNotes DEF AddNote, SInv
  <1>2. ASSUME NEW depth \in TreeDepths, SetTreeDepth(depth)
        PROVE  SInv' /\ IndexKept(forest, forest')
    BY <1>2 DEF SetTreeDepth, SInv, IndexKept
  <1>3. CASE Rebuild
    <2>1. /\ Good(forest') /\ Exact(forest') /\ Undercounts(forest')
          /\ forest'.leaf = forest.leaf /\ forest'.used = forest.used
      BY <1>3, RebuildGood DEF Rebuild, SInv
    <2>2. UniqueLeaves(forest') /\ LeavesAreNotes(forest')
      BY <2>1 DEF SInv, UniqueLeaves, LeavesAreNotes
    <2> QED
      BY <1>3, <2>1, <2>2 DEF Rebuild, SInv
  <1>4. CASE UNCHANGED vars
    BY <1>4 DEF vars, SInv, IndexKept
  <1> QED
    BY <1>1, <1>2, <1>3, <1>4 DEF Next, IndexKept

(* Every step keeps the invariant of a chain that started empty. *)
LEMMA NextGood == IInv /\ [Next]_vars => IInv'
  BY StepKeeps DEF IInv

(* Every step keeps the invariant of an upgraded chain. *)
LEMMA LegacyNextGood == LInv /\ [Next]_vars => LInv'
  BY StepKeeps DEF LInv

(* The inductive invariant holds in every reachable state. *)
THEOREM Invariance == Spec => []IInv
  BY InitGood, NextGood, PTL DEF Spec

(* The store keeps its shape: counters, leaves, frontiers and root slots of *)
(* all trees stay consistent whatever is inserted at whatever depth.        *)
THEOREM TypeCorrect == Spec => []TypeOK
  <1>1. IInv => TypeOK
    BY DEF IInv, SInv, Good, TypeOK, ForestTypeOK
  <1> QED
    BY <1>1, Invariance, PTL

(* No commitment ever gets a second leaf, and no used marker is lost: the    *)
(* duplicate check of InsertNote works across trees and changes of depth.    *)
THEOREM LeavesStayUnique == Spec => []LeavesAreUnique
  <1>1. IInv => LeavesAreUnique
    BY DEF IInv, SInv, LeavesAreUnique
  <1> QED
    BY <1>1, Invariance, PTL

(* What a stored leaf's place and a retired tree keep, from step to step. *)
StepAppends(f, g) ==
    /\ \A key \in DOMAIN f.leaf : key \in DOMAIN g.leaf /\ g.leaf[key] = f.leaf[key]
    /\ \A tree \in 0..(f.treeCount - 2) :
          /\ g.nextIndex[tree] = f.nextIndex[tree]
          /\ g.rootSlot[TreeRootKey(tree)] = f.rootSlot[TreeRootKey(tree)]

(* A stored leaf is never moved, overwritten or removed and a retired tree *)
(* never changes: what a spend proves against a retired tree stays there   *)
(* for ever (InsertNote, CreateTree, RebuildRootIndex).                    *)
THEOREM HistoryOnlyGrows == Spec => HistoryIsAppendOnly
  <1>1. IInv /\ [Next]_vars => [StepAppends(forest, forest')]_vars
    <2> SUFFICES ASSUME IInv, Next PROVE StepAppends(forest, forest')
      OBVIOUS
    <2>1. ASSUME NEW commitment \in Commitment, AddNote(commitment)
          PROVE  StepAppends(forest, forest')
      <3>1. Good(forest) /\ forest' = InsertNote(forest, commitment, treeDepth)
        BY <2>1 DEF AddNote, IInv, SInv
      <3>2. PICK key : /\ key \notin DOMAIN forest.leaf
                       /\ forest'.leaf = Put(forest.leaf, key, commitment)
        BY <3>1, InsertNoteLeaf
      <3>3. \A k \in DOMAIN forest.leaf :
              k \in DOMAIN forest'.leaf /\ forest'.leaf[k] = forest.leaf[k]
        BY <3>2, PutElsewhere
      <3>4. RetiredSame(forest, forest')
        BY <3>1, InsertNoteElsewhere
      <3> QED
        BY <3>3, <3>4 DEF StepAppends, RetiredSame
    <2>2. ASSUME forest' = forest PROVE StepAppends(forest, forest')
      BY <2>2 DEF StepAppends
    <2>3. CASE Rebuild
      BY <2>2, <2>3, RebuildGood DEF Rebuild, IInv, SInv
    <2>4. ASSUME NEW depth \in TreeDepths, SetTreeDepth(depth)
          PROVE  StepAppends(forest, forest')
      BY <2>2, <2>4 DEF SetTreeDepth
    <2> QED
      BY <2>1, <2>3, <2>4 DEF Next
  <1>2. [StepAppends(forest, forest')]_vars <=>
        [/\ \A key \in DOMAIN forest.leaf :
               key \in DOMAIN forest'.leaf /\ forest'.leaf[key] = forest.leaf[key]
         /\ \A tree \in 0..(forest.treeCount - 2) :
               /\ forest'.nextIndex[tree] = forest.nextIndex[tree]
               /\ forest'.rootSlot[TreeRootKey(tree)] = forest.rootSlot[TreeRootKey(tree)]
        ]_vars
    BY DEF StepAppends
  <1> QED
    BY <1>1, <1>2, Invariance, PTL DEF Spec, HistoryIsAppendOnly

(* The reverse index is exact in every reachable state: no entry outlives *)
(* the last slot of its root, and none disappears before it.              *)
THEOREM IndexIsExact == Spec => []IndexExact
  <1>1. IInv => IndexExact
    BY DEF IInv, Exact, IndexExact
  <1> QED
    BY <1>1, Invariance, PTL

(* The constant-time lookup answers what the scan it replaced would have  *)
(* answered, in every reachable state and for every root.                 *)
THEOREM LookupIsScan == Spec => []LookupMatchesScan
  <1>1. ASSUME IInv PROVE LookupMatchesScan
    <2>1. ASSUME NEW root
          PROVE  RootRefCount(forest.rootIndex, root) > 0 <=>
                    root \in HeldRoots(forest.rootSlot)
      BY <1>1, CountedIsHeld DEF IInv, SInv, Good
    <2>2. ASSUME NEW root
          PROVE  root \in HeldRoots(forest.rootSlot) =>
                    \E tree \in TreeIds : IsKnownRoot(forest, tree, root)
      <3> SUFFICES ASSUME NEW key \in DOMAIN forest.rootSlot, forest.rootSlot[key] = root
                   PROVE  \E tree \in TreeIds : IsKnownRoot(forest, tree, root)
        BY DEF HeldRoots
      <3>1. key \in ScannedKeys(forest.treeCount)
        BY <1>1 DEF IInv, SInv, Good, ForestShapeOK, SlotsOK
      <3>2. PICK tree \in TreeIds :
                key \in {TreeRootKey(tree)} \cup
                        {RootHistoryKey(tree, slot) : slot \in 0..(MaxRootHistory - 1)}
        BY <3>1 DEF ScannedKeys, TreeIds, Trees
      <3> QED
        BY <3>2 DEF IsKnownRoot
    <2>3. ASSUME NEW root, NEW tree \in TreeIds, IsKnownRoot(forest, tree, root)
          PROVE  root = EmptyRoot \/ root \in HeldRoots(forest.rootSlot)
      BY <2>3 DEF IsKnownRoot, HeldRoots
    <2> QED
      BY <2>1, <2>2, <2>3 DEF LookupMatchesScan, IsValidRootAnyTree
  <1> QED
    BY <1>1, Invariance, PTL
-----------------------------------------------------------------------------
(***************************************************************************)
(* A chain older than the index.                                           *)
(***************************************************************************)

IsAfter(after, notes, n) ==
    after = [k \in 0..n |->
                IF k = 0 THEN EmptyForest
                ELSE InsertNote(after[k - 1], notes[k], DefaultTreeDepth)]

(* The forest after each of some insertions. *)
LEMMA AfterExists ==
    ASSUME NEW notes, NEW len \in Nat
    PROVE  \E after : IsAfter(after, notes, len)
  <1> DEFINE G == {n \in Nat : \E after : IsAfter(after, notes, n)}
  <1>1. 0 \in G
    <2>1. IsAfter([k \in 0..0 |-> EmptyForest], notes, 0)
      BY DEF IsAfter
    <2> QED
      BY <2>1
  <1>2. ASSUME NEW n \in Nat, n \in G PROVE n + 1 \in G
    <2>1. PICK after : IsAfter(after, notes, n)
      BY <1>2
    <2>2. PICK v : v = [k \in 0..(n + 1) |->
                          IF k = 0 THEN EmptyForest
                          ELSE InsertNote(after[k - 1], notes[k], DefaultTreeDepth)]
      OBVIOUS
    <2>3. \A k \in 0..n : v[k] = after[k]
      BY <2>1, <2>2 DEF IsAfter
    <2>4. \A k \in 0..(n + 1) :
            v[k] = IF k = 0 THEN EmptyForest
                   ELSE InsertNote(v[k - 1], notes[k], DefaultTreeDepth)
      <3> TAKE k \in 0..(n + 1)
      <3>1. k # 0 => k - 1 \in 0..n
        OBVIOUS
      <3> QED
        BY <2>2, <2>3, <3>1
    <2>5. IsAfter(v, notes, n + 1)
      BY <2>2, <2>4 DEF IsAfter
    <2> QED
      BY <2>5
  <1>3. \A n \in Nat : n \in G
    <2> HIDE DEF G
    <2> QED
      BY <1>1, <1>2, NumberInduction
  <1> QED
    BY <1>3

(* Insertions of different notes into the empty forest leave a good one, *)
(* whose trees have the roots of their leaves.                           *)
LEMMA ForestWithGood ==
    ASSUME NEW len \in Nat, NEW notes \in InjectiveSeqs(Commitment, len),
           NEW f, f = ForestWith(notes)
    PROVE  /\ Good(f) /\ UniqueLeaves(f) /\ LeavesAreNotes(f)
           /\ TreesRight(f, DefaultTreeDepth)
  <1>1. /\ notes \in [1..len -> Commitment] /\ Len(notes) = len
        /\ \A k, m \in 1..len : notes[k] = notes[m] => k = m
    BY DEF InjectiveSeqs
  <1>2. PICK after : /\ IsAfter(after, notes, len)
                     /\ f = after[len]
    <2>1. PICK after : after = CHOOSE a : IsAfter(a, notes, Len(notes))
      OBVIOUS
    <2>2. f = after[Len(notes)]
      BY <2>1 DEF ForestWith, IsAfter
    <2>3. IsAfter(after, notes, Len(notes))
      BY <1>1, <2>1, AfterExists
    <2> QED
      BY <1>1, <2>2, <2>3
  <1>3. \A k \in 0..len : after[k] = IF k = 0 THEN EmptyForest
                                     ELSE InsertNote(after[k - 1], notes[k], DefaultTreeDepth)
    BY <1>2 DEF IsAfter
  <1> DEFINE G == {n \in Nat : n <= len =>
                      /\ Good(after[n]) /\ UniqueLeaves(after[n]) /\ LeavesAreNotes(after[n])
                      /\ TreesRight(after[n], DefaultTreeDepth)
                      /\ after[n].used = {notes[k] : k \in 1..n}}
  <1>4. 0 \in G
    <2>1. after[0] = EmptyForest
      BY <1>3
    <2>2. Good(after[0]) /\ UniqueLeaves(after[0]) /\ LeavesAreNotes(after[0])
      BY <2>1, EmptyForestGood
    <2>3. after[0].used = {}
      BY <2>1 DEF EmptyForest
    <2>4. TreesRight(after[0], DefaultTreeDepth)
      BY <2>1 DEF EmptyForest, TreesRight, Trees
    <2> QED
      BY <2>2, <2>3, <2>4
  <1>5. ASSUME NEW n \in Nat, n \in G PROVE n + 1 \in G
    <2> SUFFICES ASSUME n + 1 <= len
                 PROVE  /\ Good(after[n + 1]) /\ UniqueLeaves(after[n + 1])
                        /\ LeavesAreNotes(after[n + 1])
                        /\ TreesRight(after[n + 1], DefaultTreeDepth)
                        /\ after[n + 1].used = {notes[k] : k \in 1..(n + 1)}
      OBVIOUS
    <2>1. PICK e : e = after[n]
      OBVIOUS
    <2>2. /\ Good(e) /\ UniqueLeaves(e) /\ LeavesAreNotes(e)
          /\ TreesRight(e, DefaultTreeDepth)
          /\ e.used = {notes[k] : k \in 1..n}
      BY <1>5, <2>1
    <2>3. PICK note \in Commitment : note = notes[n + 1]
      BY <1>1
    <2>4. PICK g : g = after[n + 1]
      OBVIOUS
    <2>5. g = InsertNote(e, note, DefaultTreeDepth)
      <3>1. n + 1 \in 0..len /\ n + 1 # 0 /\ (n + 1) - 1 = n
        OBVIOUS
      <3> QED
        BY <1>3, <2>1, <2>3, <2>4, <3>1
    <2>6. CanInsertNote(e, note)
      <3>1. \A k \in 1..n : k \in 1..len /\ n + 1 \in 1..len /\ k # n + 1
        OBVIOUS
      <3> QED
        BY <1>1, <2>2, <2>3, <3>1 DEF CanInsertNote
    <2>7. Good(g)
      BY <2>2, <2>5, InsertNoteGood
    <2>8. UniqueLeaves(g) /\ LeavesAreNotes(g)
      BY <2>2, <2>5, <2>6, InsertNoteUnique, InsertNoteNotes
    <2>9. g.used = e.used \cup {note}
      BY <2>2, <2>5, InsertNoteLeaf
    <2>10. TreesRight(g, DefaultTreeDepth)
      BY <2>2, <2>5, InsertNoteRight, DefaultDepthAssumption
    <2>11. 1..(n + 1) = (1..n) \cup {n + 1}
      OBVIOUS
    <2> QED
      BY <2>2, <2>3, <2>4, <2>7, <2>8, <2>9, <2>11, <2>10
  <1>6. \A n \in Nat : n \in G
    <2> HIDE DEF G
    <2> QED
      BY <1>4, <1>5, NumberInduction
  <1> QED
    BY <1>2, <1>6

(* Whether the trees' roots are right does not depend on the index. *)
LEMMA SlotsAndLeavesRight ==
    ASSUME NEW f, NEW g, NEW depth, Good(f), TreesRight(f, depth),
           g.treeCount = f.treeCount, g.nextIndex = f.nextIndex, g.leaf = f.leaf,
           g.frontier = f.frontier, g.rootSlot = f.rootSlot
    PROVE  TreesRight(g, depth)
  <1>1. Trees(g) = Trees(f)
    BY DEF Trees
  <1>2. ASSUME NEW tree \in Trees(f) PROVE TreeRight(g, tree, depth)
    <2>1. f.nextIndex[tree] \in Nat
      BY DEF Good, ForestShapeOK, CountersOK
    <2>2. TreeSame(f, g, tree)
      BY DEF TreeSame
    <2>3. TreeRight(f, tree, depth)
      BY DEF TreesRight
    <2> QED
      BY <2>1, <2>2, <2>3, SameStaysRight
  <1> QED
    BY <1>1, <1>2 DEF TreesRight

(* Its slots are those of some insertions; its index is empty. *)
LEMMA LegacyInitGood ==
    LegacyInit => LInv /\ TreesRight(forest, DefaultTreeDepth)
  <1> SUFFICES ASSUME LegacyInit PROVE LInv /\ TreesRight(forest, DefaultTreeDepth)
    OBVIOUS
  <1>0. PICK n \in 0..LegacyNotes : \E notes \in InjectiveSeqs(Commitment, n) :
           forest = [ForestWith(notes) EXCEPT !.rootIndex = <<>>]
    BY DEF LegacyInit
  <1>1. PICK notes \in InjectiveSeqs(Commitment, n) :
           forest = [ForestWith(notes) EXCEPT !.rootIndex = <<>>]
    BY <1>0
  <1>2. PICK f : f = ForestWith(notes)
    OBVIOUS
  <1>3. /\ Good(f) /\ UniqueLeaves(f) /\ LeavesAreNotes(f)
        /\ TreesRight(f, DefaultTreeDepth)
    BY <1>2, ForestWithGood, LegacyAssumption
  <1>4. HasForestFields(f)
    BY <1>3 DEF Good, Slotted
  <1>5. PICK index : index = <<>>
    OBVIOUS
  <1>6. /\ forest.treeCount = f.treeCount /\ forest.activeTreeId = f.activeTreeId
        /\ forest.nextIndex = f.nextIndex /\ forest.leaf = f.leaf
        /\ forest.frontier = f.frontier /\ forest.used = f.used
        /\ forest.rootSlot = f.rootSlot /\ forest.rootIndex = index
        /\ HasForestFields(forest)
    BY <1>1, <1>2, <1>4, <1>5 DEF HasForestFields
  <1>7. Trees(forest) = Trees(f)
    BY <1>6 DEF Trees
  <1>8. Slotted(forest)
    BY <1>3, <1>6 DEF Good, Slotted
  <1>9. Good(forest)
    BY <1>3, <1>6, <1>7, <1>8 DEF Good, ForestShapeOK, CountersOK, LeavesOK, SlotsOK
  <1>10. UniqueLeaves(forest) /\ LeavesAreNotes(forest)
    BY <1>3, <1>6 DEF UniqueLeaves, LeavesAreNotes
  <1>11. DOMAIN forest.rootIndex = {}
    BY <1>5, <1>6
  <1>12. Undercounts(forest)
    BY <1>11 DEF Undercounts
  <1>13. TreesRight(forest, DefaultTreeDepth)
    BY <1>3, <1>6, SlotsAndLeavesRight
  <1> QED
    BY <1>9, <1>10, <1>12, <1>13, TreeDepthsAssumption DEF LegacyInit, LInv, SInv

(* On a chain older than the index no entry ever claims more slots than     *)
(* hold its root: an upgraded node accepts no expired root while its index  *)
(* is incomplete, whichever slots are displaced first (rootIndexDecr).      *)
THEOREM IndexIsSafe == LegacySpec => []IndexNeverOvercounts
  <1>1. LInv => IndexNeverOvercounts
    BY DEF LInv, Undercounts, IndexNeverOvercounts
  <1> QED
    BY <1>1, LegacyInitGood, LegacyNextGood, PTL DEF LegacySpec

(* A rebuild makes any index exact, and no later insertion, new tree or    *)
(* change of depth makes it inexact again (RebuildRootIndex).              *)
THEOREM RebuildMakesExact == LegacySpec => RebuildRepairs
  <1>1. LInv /\ [Next]_vars => [(Rebuild \/ IndexExact) => IndexExact']_vars
    <2> SUFFICES ASSUME LInv, Next, Rebuild \/ IndexExact PROVE IndexExact'
      OBVIOUS
    <2>1. CASE Rebuild
      <3>1. Exact(forest')
        BY <2>1, RebuildGood DEF Rebuild, LInv, SInv
      <3> QED
        BY <3>1 DEF Exact, IndexExact
    <2>2. CASE IndexExact
      <3>1. Exact(forest')
        BY <2>2, StepKeeps DEF LInv, IndexExact, Exact
      <3> QED
        BY <3>1 DEF Exact, IndexExact
    <2> QED
      BY <2>1, <2>2
  <1> QED
    BY <1>1, LegacyInitGood, LegacyNextGood, PTL DEF LegacySpec, RebuildRepairs

-----------------------------------------------------------------------------
(***************************************************************************)
(* The roots, while governance leaves the depth alone.                     *)
(***************************************************************************)

(* The roots of a chain of one depth: what TreesRight says of every tree.   *)
RInv == SInv /\ TreesRight(forest, DefaultTreeDepth)

(* One step of a chain whose depth never changes. *)
LEMMA RightNext ==
    ASSUME TreeDepths = {DefaultTreeDepth}
    PROVE  RInv /\ [Next]_vars => RInv'
  <1> SUFFICES ASSUME RInv, [Next]_vars PROVE RInv'
    OBVIOUS
  <1>1. SInv /\ SInv' /\ treeDepth = DefaultTreeDepth /\ TreesRight(forest, DefaultTreeDepth)
    BY StepKeeps DEF RInv, SInv
  <1>2. ASSUME NEW commitment \in Commitment, AddNote(commitment)
        PROVE  TreesRight(forest', DefaultTreeDepth)
    BY <1>1, <1>2, InsertNoteRight, DefaultDepthAssumption DEF AddNote, SInv
  <1>3. ASSUME Rebuild PROVE TreesRight(forest', DefaultTreeDepth)
    <2>1. /\ forest'.treeCount = forest.treeCount /\ forest'.nextIndex = forest.nextIndex
          /\ forest'.leaf = forest.leaf /\ forest'.frontier = forest.frontier
          /\ forest'.rootSlot = forest.rootSlot
      BY <1>1, <1>3, RebuildGood DEF Rebuild, SInv
    <2> QED
      BY <1>1, <2>1, SlotsAndLeavesRight DEF SInv
  <1>4. ASSUME forest' = forest PROVE TreesRight(forest', DefaultTreeDepth)
    BY <1>1, <1>4
  <1>5. TreesRight(forest', DefaultTreeDepth)
    BY <1>2, <1>3, <1>4 DEF Next, SetTreeDepth, vars
  <1> QED
    BY <1>1, <1>5 DEF RInv

(* What TreesRight says is what the run checks of the slots. *)
LEMMA RightIsMerkle ==
    ASSUME TreeDepths = {DefaultTreeDepth}, RInv
    PROVE  RootsAreMerkleRoots
  <1> SUFFICES ASSUME NEW tree \in TreeIds, NEW leaves, leaves = LeavesOf(tree)
               PROVE  /\ IsRootOf(forest.rootSlot[TreeRootKey(tree)], leaves)
                      /\ \A n \in 1..Len(leaves) :
                            n > Len(leaves) - MaxRootHistory =>
                                IsRootOf(forest.rootSlot[RootHistoryKey(tree, (n - 1) % MaxRootHistory)],
                                         SubSeq(leaves, 1, n))
    BY DEF RootsAreMerkleRoots
  <1>1. PICK depth \in Nat : depth = DefaultTreeDepth /\ depth \in TreeDepths
    BY DefaultDepthAssumption
  <1>2. PICK next \in Nat : next = forest.nextIndex[tree] /\ next = TreeNextIndex(forest, tree)
    BY DEF RInv, SInv, Good, ForestShapeOK, CountersOK, TreeIds, TreeNextIndex, Get
  <1>3. leaves = First(forest, tree, next) /\ Len(leaves) = next
    BY <1>2, FirstLength DEF LeavesOf, First
  <1>4. PICK w \in Nat : w = Width[depth]
    BY WidthEquation
  <1>5. TreeRight(forest, tree, depth) /\ next <= w
    BY <1>1, <1>2, <1>4 DEF RInv, TreesRight, TreeIds, TreeRight
  <1>6. IsRootOf(forest.rootSlot[TreeRootKey(tree)], leaves)
    BY <1>1, <1>2, <1>3, <1>4, <1>5 DEF TreeRight, IsRootOf
  <1>7. ASSUME NEW n \in 1..next, n > next - MaxRootHistory
        PROVE  IsRootOf(forest.rootSlot[RootHistoryKey(tree, (n - 1) % MaxRootHistory)],
                        SubSeq(leaves, 1, n))
    <2>1. PICK key : key = RootHistoryKey(tree, (n - 1) % MaxRootHistory)
      OBVIOUS
    <2>2. forest.rootSlot[key] = MerkleRoot(First(forest, tree, n), depth)
      BY <1>2, <1>5, <1>7, <2>1 DEF TreeRight
    <2>3. SubSeq(leaves, 1, n) = First(forest, tree, n)
      BY <1>3 DEF First
    <2>4. Len(First(forest, tree, n)) <= Width[depth]
      BY <1>4, <1>5, FirstLength
    <2> QED
      BY <1>1, <2>1, <2>2, <2>3, <2>4 DEF IsRootOf
  <1> QED
    BY <1>3, <1>6, <1>7

(* While governance leaves the depth alone: the current root of every tree,  *)
(* retired ones included, is the Merkle root of its leaves, and every slot   *)
(* of its ring is the root of the leaves there were when it was written.     *)
(* The frontier that insertLeafIntoTree keeps stands for the whole tree.     *)
THEOREM RootsStayMerkleRoots ==
    ASSUME TreeDepths = {DefaultTreeDepth}
    PROVE  LegacySpec => []RootsAreMerkleRoots
  <1>1. LegacyInit => RInv
    BY LegacyInitGood DEF LInv, RInv
  <1>2. RInv /\ [Next]_vars => RInv'
    BY RightNext
  <1>3. RInv => RootsAreMerkleRoots
    BY RightIsMerkle
  <1> QED
    BY <1>1, <1>2, <1>3, PTL DEF LegacySpec

-----------------------------------------------------------------------------
(***************************************************************************)
(* The lookback that the forest promises to spenders.                      *)
(***************************************************************************)

(* The windows of all trees. *)
Windows(f) == [tree \in Trees(f) |-> Ring(f, tree)]

AcceptedRoots(f) ==
    {root \in HeldRoots(f.rootSlot) \cup DOMAIN f.rootIndex \cup {EmptyRoot} :
        IsValidRootAnyTree(f, root)}

(* What the index accepts are the windows and the empty root. *)
LEMMA AcceptedAreRecent ==
    ASSUME NEW f, Good(f), Exact(f), \A tree \in Trees(f) : RingOK(f, tree)
    PROVE  AcceptedRoots(f) = Lookback!AcceptRecent(Windows(f))
  <1>1. AcceptedRoots(f) = {EmptyRoot} \cup HeldRoots(f.rootSlot)
    <2>1. \A root : RootRefCount(f.rootIndex, root) > 0 <=> root \in HeldRoots(f.rootSlot)
      BY CountedIsHeld DEF Good
    <2> QED
      BY <2>1 DEF AcceptedRoots, IsValidRootAnyTree
  <1>2. PICK held : held = UNION {{Windows(f)[tree][i] : i \in DOMAIN Windows(f)[tree]} :
                                    tree \in DOMAIN Windows(f)}
    OBVIOUS
  <1>3. \A root : root \in held <=>
           \E tree \in Trees(f) : \E i \in DOMAIN Ring(f, tree) : root = Ring(f, tree)[i]
    BY <1>2 DEF Windows
  <1>4. \A tree \in Trees(f) : f.nextIndex[tree] \in Nat /\ RingDense(f, tree)
    BY DEF Good, ForestShapeOK, CountersOK, RingOK
  <1>5. ASSUME NEW root \in held PROVE root \in HeldRoots(f.rootSlot)
    BY <1>3, <1>4, RingHolds DEF HeldRoots
  <1>6. ASSUME NEW key \in DOMAIN f.rootSlot PROVE f.rootSlot[key] \in held
    <2>1. key \in ScannedKeys(f.treeCount)
      BY DEF Good, ForestShapeOK, SlotsOK
    <2>2. PICK tree \in Trees(f) : key = TreeRootKey(tree) \/ \E slot : key = RootHistoryKey(tree, slot)
      BY <2>1 DEF ScannedKeys, Trees
    <2>3. ASSUME NEW slot, RootHistoryKey(tree, slot) \in DOMAIN f.rootSlot
          PROVE  f.rootSlot[RootHistoryKey(tree, slot)] \in held
      BY <1>3, <1>4, <2>3, RingHolds
    <2>4. CASE key = TreeRootKey(tree)
      <3>1. PICK n \in Nat : n = f.nextIndex[tree] /\ n > 0 /\ n - 1 \in 0..(n - 1)
        BY <1>4 DEF RingOK
      <3>2. PICK slot : slot = (n - 1) % MaxRootHistory
        OBVIOUS
      <3>3. RootHistoryKey(tree, slot) \in DOMAIN f.rootSlot
        BY <1>4, <3>1, <3>2 DEF RingDense
      <3>4. f.rootSlot[key] = f.rootSlot[RootHistoryKey(tree, slot)]
        BY <2>4, <3>1, <3>2 DEF RingOK
      <3> QED
        BY <2>3, <3>3, <3>4
    <2> QED
      BY <2>2, <2>3, <2>4
  <1>7. held = HeldRoots(f.rootSlot)
    BY <1>5, <1>6 DEF HeldRoots
  <1> QED
    BY <1>1, <1>2, <1>7 DEF Lookback!AcceptRecent

(* The mapped state, before and after a step. *)
LEMMA MappedWindows ==
    /\ [tree \in TreeIds |-> RecentOf(tree)] = Windows(forest)
    /\ [tree \in TreeIds |-> RecentOf(tree)]' = Windows(forest')
    /\ {root \in Roots : IsValidRootAnyTree(forest, root)} = AcceptedRoots(forest)
    /\ {root \in Roots : IsValidRootAnyTree(forest, root)}' = AcceptedRoots(forest')
  BY DEF TreeIds, RecentOf, Windows, Ring, Roots, AcceptedRoots

(* The inductive invariant of the refinement: no tree is empty between two  *)
(* messages, and its ring holds the roots of its last insertions.           *)
RingInv == IInv /\ \A tree \in TreeIds : RingOK(forest, tree)

(* The empty forest. *)
LEMMA RingInit == Init => RingInv /\ Lookback!Init
  <1> SUFFICES ASSUME Init PROVE RingInv /\ Lookback!Init
    OBVIOUS
  <1>1. forest = EmptyForest /\ Trees(forest) = {}
    BY DEF Init, EmptyForest, Trees
  <1>2. RingInv
    BY <1>1, InitGood DEF RingInv, TreeIds
  <1>3. Windows(forest) = <<>>
    BY <1>1 DEF Windows
  <1>4. AcceptedRoots(forest) = {EmptyRoot}
    BY <1>1 DEF AcceptedRoots, EmptyForest, HeldRoots, IsValidRootAnyTree
  <1> QED
    BY <1>2, <1>3, <1>4, MappedWindows DEF Lookback!Init

(* The abstract module has definitions of its own. *)
LEMMA LookbackSame ==
    ASSUME NEW S
    PROVE  Lookback!Cardinality(S) = Cardinality(S) /\ Lookback!Window(S) = LastRoots(S)
  BY DEF Lookback!Cardinality, Cardinality, Lookback!Window, LastRoots

(* An insertion advances one tree. *)
LEMMA AddNoteAdvances ==
    ASSUME RingInv, NEW commitment \in Commitment, AddNote(commitment)
    PROVE  RingInv' /\ Lookback!Next
  <1>1. PICK f, g : f = forest /\ g = forest'
    OBVIOUS
  <1>2. /\ Good(f) /\ Exact(f) /\ treeDepth \in Nat
        /\ \A tree \in Trees(f) : RingOK(f, tree)
        /\ g = InsertNote(f, commitment, treeDepth)
    BY <1>1, TreeDepthsAssumption DEF RingInv, IInv, SInv, AddNote, TreeIds
  <1>3. IInv'
    <2>1. [Next]_vars
      BY DEF Next
    <2> QED
      BY <2>1, NextGood DEF RingInv
  <1>4. Good(g) /\ Exact(g)
    BY <1>1, <1>3 DEF IInv, SInv
  <1>5. \A tree \in Trees(g) : RingOK(g, tree)
    BY <1>2, InsertNoteRings
  <1>6. PICK tree \in Trees(g) : \E r, root :
           /\ tree \in {f.treeCount - 1, f.treeCount}
           /\ Trees(g) = Trees(f) \cup {tree}
           /\ GainsRoot(r, g, tree, root)
           /\ Ring(r, tree) = IF tree \in Trees(f) THEN Ring(f, tree) ELSE <<>>
           /\ \A t \in Trees(f) : t # tree => Ring(g, t) = Ring(f, t)
    BY <1>2, InsertNoteRings
  <1>7. PICK root, before :
           /\ before = IF tree \in Trees(f) THEN Ring(f, tree) ELSE <<>>
           /\ Ring(g, tree) = Lookback!Window(Append(before, root))
           /\ Len(Ring(g, tree)) \in Nat \ {0}
           /\ Ring(g, tree)[Len(Ring(g, tree))] = root
    BY <1>6, LookbackSame DEF GainsRoot
  <1>8. RingInv'
    BY <1>1, <1>3, <1>5 DEF RingInv, TreeIds
  <1>9. /\ DOMAIN Windows(f) = Trees(f) /\ DOMAIN Windows(g) = Trees(g)
        /\ \A t \in Trees(f) : Windows(f)[t] = Ring(f, t)
        /\ \A t \in Trees(g) : Windows(g)[t] = Ring(g, t)
    BY DEF Windows
  <1>10. Windows(g) = [t \in DOMAIN Windows(f) \cup {tree} |->
                          IF t = tree
                          THEN Lookback!Window(Append(IF tree \in DOMAIN Windows(f)
                                                      THEN Windows(f)[tree] ELSE <<>>,
                                                      Windows(g)[tree][Len(Windows(g)[tree])]))
                          ELSE Windows(f)[t]]
    <2>1. \A t \in Trees(g) : t # tree => Ring(g, t) = Windows(f)[t]
      BY <1>6, <1>9
    <2>2. Ring(g, tree) = Lookback!Window(Append(IF tree \in DOMAIN Windows(f)
                                                 THEN Windows(f)[tree] ELSE <<>>,
                                                 Windows(g)[tree][Len(Windows(g)[tree])]))
      <3>1. before = IF tree \in DOMAIN Windows(f) THEN Windows(f)[tree] ELSE <<>>
        BY <1>7, <1>9
      <3>2. root = Windows(g)[tree][Len(Windows(g)[tree])]
        BY <1>7, <1>9
      <3> QED
        BY <1>7, <3>1, <3>2
    <2>3. PICK new : new = Lookback!Window(Append(IF tree \in DOMAIN Windows(f)
                                                 THEN Windows(f)[tree] ELSE <<>>,
                                                 Windows(g)[tree][Len(Windows(g)[tree])]))
      OBVIOUS
    <2>4. Windows(g) = [t \in Trees(f) \cup {tree} |-> IF t = tree THEN new ELSE Windows(f)[t]]
      BY <1>6, <2>1, <2>2, <2>3 DEF Windows
    <2> QED
      BY <1>9, <2>3, <2>4
  <1>11. AcceptedRoots(g) = Lookback!AcceptRecent(Windows(g))
    BY <1>4, <1>5, AcceptedAreRecent
  <1>12. tree \in {Lookback!Cardinality(DOMAIN Windows(f)) - 1, Lookback!Cardinality(DOMAIN Windows(f))}
    <2>1. PICK count \in Nat : count = f.treeCount
      BY <1>2 DEF Good, ForestShapeOK, CountersOK
    <2>2. Cardinality(0..(count - 1)) = count
      BY FS_Interval
    <2> QED
      BY <1>6, <1>9, <2>1, <2>2, LookbackSame DEF Trees
  <1>13. Windows(g)[tree] # <<>>
    BY <1>7, <1>9
  <1>14. Lookback!Advance(tree)
    BY <1>1, <1>10, <1>11, MappedWindows DEF Lookback!Advance, Lookback!Trees
  <1>15. Lookback!Next
    BY <1>1, <1>9, <1>12, <1>13, <1>14, MappedWindows DEF Lookback!Next, Lookback!Trees
  <1> QED
    BY <1>8, <1>15

(* Every other step leaves slots and index alone; an exact index is not    *)
(* changed by a rebuild.                                                   *)
LEMMA RingNext == RingInv /\ [Next]_vars => RingInv' /\ [Lookback!Next]_(Lookback!vars)
  <1> SUFFICES ASSUME RingInv, [Next]_vars
               PROVE  RingInv' /\ (Lookback!Next \/ UNCHANGED Lookback!vars)
    BY DEF Lookback!vars
  <1>1. IInv'
    BY NextGood DEF RingInv
  <1>2. CASE UNCHANGED forest
    <2>1. RingInv'
      BY <1>1, <1>2 DEF RingInv, TreeIds
    <2>2. UNCHANGED Lookback!vars
      BY <1>2, MappedWindows DEF Lookback!vars
    <2> QED
      BY <2>1, <2>2
  <1>3. ASSUME NEW commitment \in Commitment, AddNote(commitment)
        PROVE  RingInv' /\ Lookback!Next
    BY <1>3, AddNoteAdvances
  <1>4. CASE Rebuild
    BY <1>2, <1>4, RebuildGood DEF Rebuild, RingInv, IInv, SInv
  <1>5. ASSUME NEW depth \in TreeDepths, SetTreeDepth(depth) PROVE UNCHANGED forest
    BY <1>5 DEF SetTreeDepth
  <1>6. CASE UNCHANGED vars
    BY <1>2, <1>6 DEF vars
  <1> QED
    BY <1>2, <1>3, <1>4, <1>5, <1>6 DEF Next

(* The forest implements the bounded lookback of RootLookback, whatever the *)
(* length of the ring and however depths change: the roots that spends may  *)
(* be proved against are at every moment the last MaxRootHistory of each    *)
(* tree and the empty root (IsValidRootAnyTree over the slots that          *)
(* insertLeafIntoTree overwrites in turn).                                  *)
THEOREM ForestImplementsLookback == Spec => ImplementsLookback
  BY RingInit, RingNext, PTL DEF Spec, ImplementsLookback, Lookback!Spec
=============================================================================
