---------------------------- MODULE GenesisProofs ----------------------------
(***************************************************************************)
(* Restarts.  For every set of notes, every genesis and every depth at     *)
(* every moment: a chain that is exported and imported, any number of      *)
(* times, has lost nothing that an insertion or a spend reads, and so      *)
(* keeps what NixPool's own steps keep.                                    *)
(***************************************************************************)
EXTENDS Genesis, NixPoolProofs

-----------------------------------------------------------------------------
(***************************************************************************)
(* What a store must be for its export to describe it.                     *)
(***************************************************************************)

IsMap(map) == map = [key \in DOMAIN map |-> map[key]]

(* Leaves and frontiers are maps without nil values. *)
MapsOK(f) ==
    /\ IsMap(f.leaf) /\ IsMap(f.frontier)
    /\ \A tree \in DOMAIN f.frontier : IsMap(f.frontier[tree]) /\ NoNil(f.frontier[tree])

(* Besides, each tree has leaves and its ring is filled from its slot 0. *)
Restorable(f) == MapsOK(f) /\ \A tree \in Trees(f) : RingOK(f, tree)

RegRestorable(r) ==
    /\ r = [nextIndex |-> r.nextIndex, leaf |-> r.leaf, frontier |-> r.frontier,
            root |-> r.root, used |-> r.used]
    /\ IsMap(r.frontier) /\ NoNil(r.frontier)

(* Writing a key makes a map. *)
LEMMA PutIsMap ==
    ASSUME NEW map, NEW key, NEW value
    PROVE  IsMap(Put(map, key, value))
  BY DEF IsMap, Put

(* The root of an empty subtree is no nil value. *)
LEMMA EmptyRootsNotNil == \A level \in Nat : ZeroHash[level] # Nil
  <1> SUFFICES ASSUME NEW level \in Nat PROVE ZeroHash[level] # Nil
    OBVIOUS
  <1>1. CASE level = 0
    BY <1>1, ZeroHashEquation DEF Leaf, Nil
  <1>2. CASE level # 0
    <2>1. PICK below \in Nat : level = below + 1
      BY <1>2
    <2>2. ZeroHash[level] = Hash2(ZeroHash[below], ZeroHash[below])
      BY <2>1, ZeroHashEquation
    <2> QED
      BY <2>2 DEF Hash2, Nil
  <1> QED
    BY <1>1, <1>2

(* The frontier of a new tree. *)
LEMMA EmptyFrontierFull ==
    ASSUME NEW depth \in Nat
    PROVE  IsMap(EmptyFrontier(depth)) /\ NoNil(EmptyFrontier(depth))
  <1>1. \A level \in 0..(depth - 1) : level \in Nat
    OBVIOUS
  <1> QED
    BY <1>1, EmptyRootsNotNil DEF IsMap, EmptyFrontier, NoNil

(* An insertion stores nodes it has computed. *)
LEMMA NewFrontierFull ==
    ASSUME NEW frontier, NoNil(frontier), NEW leaf, NEW index, NEW depth \in Nat,
           NEW after, after = NewFrontier(frontier, leaf, index, depth)
    PROVE  IsMap(after) /\ NoNil(after)
  <1>1. PICK path : path = Path(frontier, leaf, index, depth)
    OBVIOUS
  <1>2. \A level \in 0..(depth - 1) : path[level] # Nil
    <2> SUFFICES ASSUME NEW level \in 0..(depth - 1) PROVE path[level] # Nil
      OBVIOUS
    <2>1. CASE level = 0
      BY <1>1, <2>1, PathEquation DEF Leaf, Nil
    <2>2. CASE level # 0
      <3>1. PICK below \in 0..(depth - 1) : level = below + 1
        <4>1. level - 1 \in 0..(depth - 1) /\ level = (level - 1) + 1
          BY <2>2
        <4> QED
          BY <4>1
      <3>2. \E a, b : path[level] = Hash2(a, b)
        BY <1>1, <3>1, PathEquation
      <3> QED
        BY <3>2 DEF Hash2, Nil
    <2> QED
      BY <2>1, <2>2
  <1>3. PICK written : written = {level \in 0..(depth - 1) : GoesLeft(index, level)}
    OBVIOUS
  <1>4. after = [level \in DOMAIN frontier \cup written |->
                    IF level \in written THEN path[level] ELSE frontier[level]]
    BY <1>1, <1>3 DEF NewFrontier
  <1>5. \A level \in written : level \in 0..(depth - 1)
    BY <1>3
  <1> QED
    BY <1>2, <1>4, <1>5 DEF IsMap, NoNil

(* The empty store. *)
LEMMA EmptyRestorable ==
    ASSUME NEW f, f = EmptyForest
    PROVE  Restorable(f)
  <1>1. f.leaf = <<>> /\ f.frontier = <<>> /\ f.treeCount = 0
    BY DEF EmptyForest
  <1>2. Trees(f) = {}
    BY <1>1 DEF Trees
  <1> QED
    BY <1>1, <1>2 DEF Restorable, MapsOK, IsMap
(* A map of full frontiers with one more. *)
LEMMA FrontiersPut ==
    ASSUME NEW frontiers, NEW tree, NEW frontier,
           \A t \in DOMAIN frontiers : IsMap(frontiers[t]) /\ NoNil(frontiers[t]),
           IsMap(frontier) /\ NoNil(frontier),
           NEW after, after = Put(frontiers, tree, frontier)
    PROVE  /\ IsMap(after)
           /\ \A t \in DOMAIN after : IsMap(after[t]) /\ NoNil(after[t])
  <1>1. IsMap(after)
    BY PutIsMap
  <1>2. ASSUME NEW t \in DOMAIN after PROVE IsMap(after[t]) /\ NoNil(after[t])
    <2>1. t = tree => after[t] = frontier
      BY DEF Put
    <2>2. t # tree => t \in DOMAIN frontiers /\ after[t] = frontiers[t]
      BY DEF Put
    <2> QED
      BY <2>1, <2>2
  <1> QED
    BY <1>1, <1>2

(* A tree created keeps the maps. *)
LEMMA CreateTreeMaps ==
    ASSUME NEW f, Good(f), MapsOK(f), NEW depth \in Nat, NEW g, g = CreateTree(f, depth)
    PROVE  MapsOK(g)
  <1>1. g.frontier = Put(f.frontier, f.treeCount, EmptyFrontier(depth)) /\ g.leaf = f.leaf
    BY CreateTreeFacts DEF Good
  <1>2. /\ IsMap(g.frontier)
        /\ \A t \in DOMAIN g.frontier : IsMap(g.frontier[t]) /\ NoNil(g.frontier[t])
    BY <1>1, EmptyFrontierFull, FrontiersPut DEF MapsOK
  <1> QED
    BY <1>1, <1>2 DEF MapsOK

(* A note inserted, at whatever depth and with whatever trees before. *)
LEMMA InsertNoteRestorable ==
    ASSUME NEW f, Good(f), Restorable(f), NEW commitment, NEW depth \in Nat,
           NEW g, g = InsertNote(f, commitment, depth)
    PROVE  Restorable(g)
  <1>1. PICK r : r = ForestWithRoom(f, depth)
    OBVIOUS
  <1>2. MapsOK(r)
    BY <1>1, RoomCases, CreateTreeMaps DEF Restorable
  <1>3. NoteInserted(r, g, commitment, depth)
    BY <1>1, InsertNoteWrites
  <1>4. PICK tree : tree = r.activeTreeId
    OBVIOUS
  <1>5. PICK old : old = Frontier(r, tree)
    OBVIOUS
  <1>6. NoNil(old)
    BY <1>2, <1>5 DEF Frontier, Get, MapsOK, NoNil
  <1>7. PICK index : index = r.nextIndex[tree]
    OBVIOUS
  <1>8. PICK new : new = NewFrontier(old, commitment, index, depth)
    OBVIOUS
  <1>9. IsMap(new) /\ NoNil(new)
    BY <1>6, <1>8, NewFrontierFull
  <1>10. g.frontier = Put(r.frontier, tree, new) /\ g.leaf = Put(r.leaf, <<tree, index>>, commitment)
    BY <1>3, <1>4, <1>5, <1>7, <1>8 DEF NoteInserted
  <1>11. /\ IsMap(g.frontier)
         /\ \A t \in DOMAIN g.frontier : IsMap(g.frontier[t]) /\ NoNil(g.frontier[t])
    BY <1>2, <1>9, <1>10, FrontiersPut DEF MapsOK
  <1>12. IsMap(g.leaf)
    BY <1>10, PutIsMap
  <1>13. \A t \in Trees(g) : RingOK(g, t)
    BY InsertNoteRings DEF Restorable
  <1> QED
    BY <1>11, <1>12, <1>13 DEF Restorable, MapsOK

(* The registration tree before the first registration. *)
LEMMA EmptyRegRestorable ==
    ASSUME NEW r, r = EmptyRegistration
    PROVE  RegRestorable(r)
  BY DEF RegRestorable, EmptyRegistration, IsMap, NoNil

(* A registration. *)
LEMMA InsertRegRestorable ==
    ASSUME NEW r, RegRestorable(r), NEW identity, NEW s, s = InsertRegCommitment(r, identity)
    PROVE  RegRestorable(s)
  <1>1. PICK new : new = NewFrontier(r.frontier, identity, r.nextIndex, RegTreeDepth)
    OBVIOUS
  <1>2. IsMap(new) /\ NoNil(new)
    BY <1>1, NewFrontierFull, RegDepthAssumption DEF RegRestorable
  <1>3. PICK next, leaf, root, used :
            s = [nextIndex |-> next, leaf |-> leaf, frontier |-> new, root |-> root, used |-> used]
    BY <1>1 DEF InsertRegCommitment
  <1> QED
    BY <1>2, <1>3 DEF RegRestorable

-----------------------------------------------------------------------------
(***************************************************************************)
(* Export.                                                                 *)
(***************************************************************************)

(* How many slots of a tree's ring are in use. *)
RingSize(f, tree) ==
    IF f.nextIndex[tree] < MaxRootHistory THEN f.nextIndex[tree] ELSE MaxRootHistory

(* The first slots of a tree's ring, as a list. *)
Slots(f, tree, n) == [i \in 1..n |-> f.rootSlot[RootHistoryKey(tree, i - 1)]]

(* The slots in use are the first ones. *)
LEMMA SlotsInUse ==
    ASSUME NEW f, NEW tree, f.nextIndex[tree] \in Nat, RingDense(f, tree)
    PROVE  /\ RingSize(f, tree) \in 0..MaxRootHistory
           /\ \A slot : RootHistoryKey(tree, slot) \in DOMAIN f.rootSlot <=>
                            slot \in 0..(RingSize(f, tree) - 1)
  <1>1. PICK n \in Nat : n = f.nextIndex[tree]
    OBVIOUS
  <1>2. PICK m \in Nat \ {0} : m = MaxRootHistory
    BY RootHistoryAssumption
  <1>3. PICK size : size = RingSize(f, tree)
    OBVIOUS
  <1>4. size = IF n < m THEN n ELSE m
    BY <1>1, <1>2, <1>3 DEF RingSize
  <1>5. \A k \in Nat : k % m \in 0..(m - 1) /\ (k < m => k % m = k)
    BY <1>2
  <1>6. ASSUME NEW slot, RootHistoryKey(tree, slot) \in DOMAIN f.rootSlot
        PROVE  slot \in 0..(size - 1)
    <2>1. PICK k \in 0..(n - 1) : k >= n - m /\ slot = k % m
      BY <1>1, <1>2, <1>6 DEF RingDense
    <2> QED
      BY <1>4, <1>5, <2>1
  <1>7. ASSUME NEW slot \in 0..(size - 1)
        PROVE  RootHistoryKey(tree, slot) \in DOMAIN f.rootSlot
    <2>1. slot \in 0..(n - 1) /\ slot % m = slot
      BY <1>4, <1>5
    <2>2. RootHistoryKey(tree, slot % m) \in DOMAIN f.rootSlot
      BY <1>1, <1>2, <2>1 DEF RingDense
    <2> QED
      BY <2>1, <2>2
  <1>8. size \in 0..m
    BY <1>4
  <1> QED
    BY <1>2, <1>3, <1>6, <1>7, <1>8

IsKept(kept, tree, len) ==
    kept = [n \in 0..len |->
              IF n = 0 THEN <<>>
              ELSE LET key == RootHistoryKey(tree, n - 1)
                   IN  IF key \in DOMAIN forest.rootSlot
                       THEN Append(kept[n - 1], forest.rootSlot[key]) ELSE kept[n - 1]]

(* The loop over the slots of a ring. *)
LEMMA KeptExists ==
    ASSUME NEW tree, NEW len \in Nat
    PROVE  \E kept : IsKept(kept, tree, len)
  <1> DEFINE G == {n \in Nat : \E kept : IsKept(kept, tree, n)}
             Next1(kept, n) == LET key == RootHistoryKey(tree, n - 1)
                               IN  IF key \in DOMAIN forest.rootSlot
                                   THEN Append(kept[n - 1], forest.rootSlot[key])
                                   ELSE kept[n - 1]
  <1>1. 0 \in G
    <2>1. IsKept([n \in 0..0 |-> <<>>], tree, 0)
      BY DEF IsKept
    <2> QED
      BY <2>1
  <1>2. ASSUME NEW m \in Nat, m \in G PROVE m + 1 \in G
    <2>1. PICK kept : IsKept(kept, tree, m)
      BY <1>2
    <2>2. PICK v : v = [n \in 0..(m + 1) |-> IF n = 0 THEN <<>> ELSE Next1(kept, n)]
      OBVIOUS
    <2>3. \A n \in 0..m : v[n] = kept[n]
      <3>1. \A n \in 0..m : kept[n] = IF n = 0 THEN <<>> ELSE Next1(kept, n)
        BY <2>1 DEF IsKept
      <3>2. \A n \in 0..m : n \in 0..(m + 1)
        OBVIOUS
      <3> HIDE DEF Next1
      <3> QED
        BY <2>2, <3>1, <3>2
    <2>4. \A n \in 0..(m + 1) : v[n] = IF n = 0 THEN <<>> ELSE Next1(v, n)
      <3> TAKE n \in 0..(m + 1)
      <3>1. n # 0 => n - 1 \in 0..m
        OBVIOUS
      <3> QED
        BY <2>2, <2>3, <3>1
    <2>5. IsKept(v, tree, m + 1)
      BY <2>2, <2>4 DEF IsKept
    <2> QED
      BY <2>5
  <1>3. \A n \in Nat : n \in G
    <2> HIDE DEF G
    <2> QED
      BY <1>1, <1>2, NumberInduction
  <1> QED
    BY <1>3

(* The exported ring is the list of the slots in use. *)
LEMMA RootHistoryIsRing ==
    ASSUME NEW tree, forest.nextIndex[tree] \in Nat, RingDense(forest, tree)
    PROVE  ExportRootHistory(tree) = Slots(forest, tree, RingSize(forest, tree))
  <1>1. PICK m \in Nat : m = MaxRootHistory
    BY RootHistoryAssumption
  <1>2. PICK size : size = RingSize(forest, tree)
    OBVIOUS
  <1>3. /\ size \in 0..m
        /\ \A slot : RootHistoryKey(tree, slot) \in DOMAIN forest.rootSlot <=>
                         slot \in 0..(size - 1)
    BY <1>1, <1>2, SlotsInUse
  <1>4. PICK kept : IsKept(kept, tree, m) /\ ExportRootHistory(tree) = kept[m]
    <2>1. PICK kept : kept = CHOOSE k : IsKept(k, tree, MaxRootHistory)
      OBVIOUS
    <2>2. ExportRootHistory(tree) = kept[MaxRootHistory]
      BY <2>1 DEF ExportRootHistory, IsKept
    <2> QED
      BY <1>1, <2>1, <2>2, KeptExists
  <1>5. /\ kept[0] = <<>>
        /\ \A n \in 0..(m - 1) :
              kept[n + 1] = IF n \in 0..(size - 1)
                            THEN Append(kept[n], forest.rootSlot[RootHistoryKey(tree, n)])
                            ELSE kept[n]
    <2>1. kept[0] = <<>>
      BY <1>4 DEF IsKept
    <2>2. ASSUME NEW n \in 0..(m - 1)
          PROVE  kept[n + 1] = IF n \in 0..(size - 1)
                               THEN Append(kept[n], forest.rootSlot[RootHistoryKey(tree, n)])
                               ELSE kept[n]
      <3>1. n + 1 \in 0..m /\ n + 1 # 0 /\ (n + 1) - 1 = n
        BY <1>1
      <3> QED
        BY <1>3, <1>4, <3>1 DEF IsKept
    <2> QED
      BY <2>1, <2>2
  <1>6. Slots(forest, tree, 0) = <<>>
    BY DEF Slots
  <1>7. \A n \in Nat : Append(Slots(forest, tree, n), forest.rootSlot[RootHistoryKey(tree, n)])
                          = Slots(forest, tree, n + 1)
    <2> TAKE n \in Nat
    <2>1. PICK a : a = Slots(forest, tree, n)
      OBVIOUS
    <2>2. PICK root : root = forest.rootSlot[RootHistoryKey(tree, n)]
      OBVIOUS
    <2>3. Len(a) = n /\ \A i \in 1..n : a[i] = forest.rootSlot[RootHistoryKey(tree, i - 1)]
      BY <2>1 DEF Slots
    <2>4. Append(a, root) = [i \in 1..(n + 1) |-> IF i = n + 1 THEN root ELSE a[i]]
      BY <2>1, <2>3 DEF Slots
    <2>5. \A i \in 1..(n + 1) : (IF i = n + 1 THEN root ELSE a[i])
                                   = forest.rootSlot[RootHistoryKey(tree, i - 1)]
      BY <2>2, <2>3
    <2> QED
      BY <2>1, <2>2, <2>4, <2>5 DEF Slots
  <1> DEFINE G == {n \in Nat : n <= m =>
                      kept[n] = Slots(forest, tree, IF n < size THEN n ELSE size)}
  <1>8. 0 \in G
    BY <1>3, <1>5, <1>6
  <1>9. ASSUME NEW n \in Nat, n \in G PROVE n + 1 \in G
    <2> SUFFICES ASSUME n + 1 <= m
                 PROVE  kept[n + 1] = Slots(forest, tree, IF n + 1 < size THEN n + 1 ELSE size)
      OBVIOUS
    <2>1. n \in 0..(m - 1) /\ kept[n] = Slots(forest, tree, IF n < size THEN n ELSE size)
      BY <1>1, <1>9
    <2>2. CASE n \in 0..(size - 1)
      <3>1. kept[n] = Slots(forest, tree, n)
        BY <1>3, <2>1, <2>2
      <3>2. kept[n + 1] = Slots(forest, tree, n + 1)
        BY <1>5, <1>7, <2>1, <2>2, <3>1
      <3>3. (IF n + 1 < size THEN n + 1 ELSE size) = n + 1
        BY <1>3, <2>2
      <3> QED
        BY <3>2, <3>3
    <2>3. CASE n \notin 0..(size - 1)
      <3>1. ~ (n < size) /\ ~ (n + 1 < size)
        BY <1>3, <2>3
      <3> QED
        BY <1>5, <2>1, <2>3, <3>1
    <2> QED
      BY <2>2, <2>3
  <1>10. \A n \in Nat : n \in G
    <2> HIDE DEF G
    <2> QED
      BY <1>8, <1>9, NumberInduction
  <1>11. (IF m < size THEN m ELSE size) = size
    BY <1>3
  <1> QED
    BY <1>1, <1>2, <1>4, <1>10, <1>11

-----------------------------------------------------------------------------
(***************************************************************************)
(* Import of one tree.                                                     *)
(***************************************************************************)

(* `after` is `f` with roots of `slots` written under some more keys. *)
Written(f, after, keys, slots) ==
    /\ Slotted(after) /\ IndexKept(f, after)
    /\ DOMAIN after.rootSlot = DOMAIN f.rootSlot \cup keys
    /\ \A key \in DOMAIN after.rootSlot : after.rootSlot[key] = slots[key]
    /\ after.treeCount = f.treeCount /\ after.activeTreeId = f.activeTreeId
    /\ after.nextIndex = f.nextIndex /\ after.leaf = f.leaf
    /\ after.frontier = f.frontier /\ after.used = f.used

(* One more of them. *)
LEMMA OneMoreWritten ==
    ASSUME NEW f, NEW after, NEW keys, NEW slots, Written(f, after, keys, slots),
           NEW key, NEW new, new = SetRootIndexed(after, key, slots[key])
    PROVE  Written(f, new, keys \cup {key}, slots)
  <1>1. PICK root : root = slots[key]
    OBVIOUS
  <1>2. /\ Slotted(new) /\ IndexKept(after, new)
        /\ new.rootSlot = Put(after.rootSlot, key, root)
        /\ DOMAIN new.rootSlot = DOMAIN after.rootSlot \cup {key}
        /\ new.treeCount = after.treeCount /\ new.activeTreeId = after.activeTreeId
        /\ new.nextIndex = after.nextIndex /\ new.leaf = after.leaf
        /\ new.frontier = after.frontier /\ new.used = after.used
    BY <1>1, SetRootIndexedFacts DEF Written
  <1>3. \A k \in DOMAIN new.rootSlot : new.rootSlot[k] = slots[k]
    BY <1>1, <1>2 DEF Written, Put
  <1>4. IndexKept(f, new)
    BY <1>2 DEF Written, IndexKept
  <1>5. DOMAIN new.rootSlot = DOMAIN f.rootSlot \cup (keys \cup {key})
    BY <1>2 DEF Written
  <1> QED
    BY <1>2, <1>3, <1>4, <1>5 DEF Written

IsRootsAfter(after, f, tree, state, len) ==
    after = [n \in 0..len |->
               IF n = 0 THEN SetTreeRootIndexed(f, tree, state.merkleRoot)
               ELSE SetRootHistoryIndexed(after[n - 1], tree, n - 1, state.rootHistory[n])]

(* The loop over an exported ring. *)
LEMMA RootsAfterExist ==
    ASSUME NEW f, NEW tree, NEW state, NEW len \in Nat
    PROVE  \E after : IsRootsAfter(after, f, tree, state, len)
  <1> DEFINE G == {n \in Nat : \E after : IsRootsAfter(after, f, tree, state, n)}
             First0 == SetTreeRootIndexed(f, tree, state.merkleRoot)
             Next1(after, n) ==
                SetRootHistoryIndexed(after[n - 1], tree, n - 1, state.rootHistory[n])
  <1>1. 0 \in G
    <2>1. IsRootsAfter([n \in 0..0 |-> First0], f, tree, state, 0)
      BY DEF IsRootsAfter
    <2> QED
      BY <2>1
  <1>2. ASSUME NEW m \in Nat, m \in G PROVE m + 1 \in G
    <2>1. PICK after : IsRootsAfter(after, f, tree, state, m)
      BY <1>2
    <2>2. PICK v : v = [n \in 0..(m + 1) |-> IF n = 0 THEN First0 ELSE Next1(after, n)]
      OBVIOUS
    <2>3. \A n \in 0..m : v[n] = after[n]
      <3>1. \A n \in 0..m : after[n] = IF n = 0 THEN First0 ELSE Next1(after, n)
        BY <2>1 DEF IsRootsAfter
      <3>2. \A n \in 0..m : n \in 0..(m + 1)
        OBVIOUS
      <3> HIDE DEF Next1, First0
      <3> QED
        BY <2>2, <3>1, <3>2
    <2>4. \A n \in 0..(m + 1) : v[n] = IF n = 0 THEN First0 ELSE Next1(v, n)
      <3> TAKE n \in 0..(m + 1)
      <3>1. n # 0 => n - 1 \in 0..m
        OBVIOUS
      <3> QED
        BY <2>2, <2>3, <3>1
    <2>5. IsRootsAfter(v, f, tree, state, m + 1)
      BY <2>2, <2>4 DEF IsRootsAfter
    <2> QED
      BY <2>5
  <1>3. \A n \in Nat : n \in G
    <2> HIDE DEF G
    <2> QED
      BY <1>1, <1>2, NumberInduction
  <1> QED
    BY <1>3

(* The roots of an exported tree, written through the indexed setters. *)
LEMMA ImportRootsWrites ==
    ASSUME NEW f, Slotted(f), NEW tree, NEW state, NEW len \in Nat, NEW slots,
           len = Len(state.rootHistory),
           \A key \in DOMAIN f.rootSlot : f.rootSlot[key] = slots[key],
           state.merkleRoot = slots[TreeRootKey(tree)],
           \A i \in 1..len : state.rootHistory[i] = slots[RootHistoryKey(tree, i - 1)],
           NEW g, g = ImportRoots(f, tree, state)
    PROVE  Written(f, g, {TreeRootKey(tree)} \cup
                            {RootHistoryKey(tree, slot) : slot \in 0..(len - 1)}, slots)
  <1>1. PICK after : IsRootsAfter(after, f, tree, state, len) /\ g = after[len]
    <2>1. PICK after : after = CHOOSE a : IsRootsAfter(a, f, tree, state, Len(state.rootHistory))
      OBVIOUS
    <2>2. g = after[Len(state.rootHistory)]
      BY <2>1 DEF ImportRoots, IsRootsAfter
    <2> QED
      BY <2>1, <2>2, RootsAfterExist
  <1> DEFINE Keys0(n) == {TreeRootKey(tree)} \cup
                            {RootHistoryKey(tree, slot) : slot \in 0..(n - 1)}
             G == {n \in Nat : n <= len => Written(f, after[n], Keys0(n), slots)}
  <1>2. 0 \in G
    <2>1. after[0] = SetRootIndexed(f, TreeRootKey(tree), slots[TreeRootKey(tree)])
      BY <1>1 DEF IsRootsAfter, SetTreeRootIndexed
    <2>2. Written(f, f, {}, slots)
      BY DEF Written, IndexKept
    <2>3. Written(f, after[0], {} \cup {TreeRootKey(tree)}, slots)
      BY <2>1, <2>2, OneMoreWritten
    <2>4. Keys0(0) = {} \cup {TreeRootKey(tree)}
      OBVIOUS
    <2> HIDE DEF Keys0
    <2> QED
      BY <2>3, <2>4
  <1>3. ASSUME NEW n \in Nat, n \in G PROVE n + 1 \in G
    <2> SUFFICES ASSUME n + 1 <= len
                 PROVE  Written(f, after[n + 1], Keys0(n + 1), slots)
      OBVIOUS
    <2>1. Written(f, after[n], Keys0(n), slots)
      BY <1>3
    <2>2. PICK key : key = RootHistoryKey(tree, n)
      OBVIOUS
    <2>3. after[n + 1] = SetRootIndexed(after[n], key, slots[key])
      <3>1. n + 1 \in 0..len /\ n + 1 # 0 /\ (n + 1) - 1 = n /\ n + 1 \in 1..len
        OBVIOUS
      <3>2. after[n + 1] = SetRootHistoryIndexed(after[n], tree, n, state.rootHistory[n + 1])
        BY <1>1, <3>1 DEF IsRootsAfter
      <3> QED
        BY <2>2, <3>1, <3>2 DEF SetRootHistoryIndexed
    <2>4. Keys0(n + 1) = Keys0(n) \cup {key}
      <3>1. 0..((n + 1) - 1) = 0..(n - 1) \cup {n}
        OBVIOUS
      <3> QED
        BY <2>2, <3>1
    <2>5. PICK before, keys : before = after[n] /\ keys = Keys0(n)
      OBVIOUS
    <2> HIDE DEF Keys0
    <2>6. Written(f, before, keys, slots)
      BY <2>1, <2>5
    <2>7. after[n + 1] = SetRootIndexed(before, key, slots[key])
      BY <2>3, <2>5
    <2>8. Written(f, after[n + 1], keys \cup {key}, slots)
      BY <2>6, <2>7, OneMoreWritten
    <2> QED
      BY <2>4, <2>5, <2>8
  <1>4. \A n \in Nat : n \in G
    <2> HIDE DEF G
    <2> QED
      BY <1>2, <1>3, NumberInduction
  <1>5. Written(f, after[len], Keys0(len), slots)
    <2>1. len \in G
      <3> HIDE DEF G
      <3> QED
        BY <1>4
    <2>2. len <= len
      OBVIOUS
    <2> HIDE DEF Keys0
    <2> QED
      BY <2>1, <2>2, Zenon
  <1> QED
    BY <1>1, <1>5

(* A frontier that goes out and in again keeps what is stored below `depth`. *)
KeptBelow(frontier, depth) ==
    [level \in {l \in 0..(depth - 1) : l \in DOMAIN frontier} |-> frontier[level]]

(* Nil stands for the levels that are not stored, and for no other. *)
LEMMA FrontierComesBack ==
    ASSUME NEW frontier, NoNil(frontier), NEW depth
    PROVE  ImportFrontier(ExportFrontier(frontier, depth)) = KeptBelow(frontier, depth)
  <1>1. PICK levels : levels = ExportFrontier(frontier, depth)
    OBVIOUS
  <1>2. levels = [l \in 0..(depth - 1) |-> IF l \in DOMAIN frontier THEN frontier[l] ELSE Nil]
    BY <1>1 DEF ExportFrontier, Get
  <1>3. \A l \in 0..(depth - 1) : levels[l] # Nil <=> l \in DOMAIN frontier
    BY <1>2 DEF NoNil
  <1>4. {l \in DOMAIN levels : levels[l] # Nil} = {l \in 0..(depth - 1) : l \in DOMAIN frontier}
    BY <1>2, <1>3
  <1>5. PICK stored : stored = {l \in 0..(depth - 1) : l \in DOMAIN frontier}
    OBVIOUS
  <1>6. \A l \in stored : levels[l] = frontier[l]
    BY <1>2, <1>5
  <1> QED
    BY <1>1, <1>4, <1>5, <1>6 DEF ImportFrontier, KeptBelow

(* The keys of the first n trees; element `at` of a key is its tree. *)
KeysBelow(map, at, n) == {key \in DOMAIN map : key[at] < n}

(* The first n trees of the forest have been imported into g. *)
Copied(g, n) ==
    /\ Slotted(g) /\ Exact(g)
    /\ g.treeCount = 0 /\ g.activeTreeId = 0 /\ g.used = {}
    /\ IsMap(g.leaf) /\ IsMap(g.frontier) /\ IsMap(g.nextIndex)
    /\ DOMAIN g.leaf = KeysBelow(forest.leaf, 1, n)
    /\ \A key \in DOMAIN g.leaf : g.leaf[key] = forest.leaf[key]
    /\ DOMAIN g.rootSlot = KeysBelow(forest.rootSlot, 2, n)
    /\ \A key \in DOMAIN g.rootSlot : g.rootSlot[key] = forest.rootSlot[key]
    /\ DOMAIN g.nextIndex = 0..(n - 1) /\ DOMAIN g.frontier = 0..(n - 1)
    /\ \A tree \in 0..(n - 1) :
          /\ g.nextIndex[tree] = forest.nextIndex[tree]
          /\ g.frontier[tree] = KeptBelow(forest.frontier[tree], params.treeDepth)

(* The keys of the forest: those of the first n trees and those of the next. *)
LEMMA NextTreeLeaves ==
    ASSUME Good(forest), NEW n \in Trees(forest)
    PROVE  /\ KeysBelow(forest.leaf, 1, n + 1)
                = KeysBelow(forest.leaf, 1, n) \cup {<<n, i>> : i \in 0..(forest.nextIndex[n] - 1)}
           /\ \A i : <<n, i>> \notin KeysBelow(forest.leaf, 1, n)
  <1>1. \A key \in DOMAIN forest.leaf :
           \E tree \in Trees(forest) : \E i \in 0..(forest.nextIndex[tree] - 1) : key = <<tree, i>>
    BY DEF Good, ForestShapeOK, LeavesOK
  <1>2. \A i \in 0..(forest.nextIndex[n] - 1) : <<n, i>> \in DOMAIN forest.leaf
    BY DEF Good, ForestShapeOK, LeavesOK
  <1>3. forest.treeCount \in Nat /\ n \in Nat /\ Trees(forest) \subseteq Nat
    BY DEF Good, ForestShapeOK, CountersOK, Trees
  <1>4. ASSUME NEW key \in DOMAIN forest.leaf
        PROVE  key[1] < n + 1 <=>
                  key[1] < n \/ key \in {<<n, i>> : i \in 0..(forest.nextIndex[n] - 1)}
    <2>1. PICK tree \in Trees(forest) : \E i \in 0..(forest.nextIndex[tree] - 1) : key = <<tree, i>>
      BY <1>1
    <2>2. PICK i \in 0..(forest.nextIndex[tree] - 1) : key = <<tree, i>>
      BY <2>1
    <2>3. tree \in Nat /\ key[1] = tree
      BY <1>3, <2>2
    <2>4. tree < n + 1 <=> tree < n \/ tree = n
      BY <1>3, <2>3
    <2>5. tree = n => key \in {<<n, j>> : j \in 0..(forest.nextIndex[n] - 1)}
      BY <2>2
    <2>6. key \in {<<n, j>> : j \in 0..(forest.nextIndex[n] - 1)} => tree = n
      BY <2>2
    <2> QED
      BY <2>3, <2>4, <2>5, <2>6
  <1>5. KeysBelow(forest.leaf, 1, n + 1)
           = KeysBelow(forest.leaf, 1, n) \cup {<<n, i>> : i \in 0..(forest.nextIndex[n] - 1)}
    BY <1>2, <1>4 DEF KeysBelow
  <1>6. \A i : <<n, i>>[1] = n
    OBVIOUS
  <1>7. ~ (n < n)
    BY <1>3
  <1> QED
    BY <1>5, <1>6, <1>7 DEF KeysBelow

(* The slots of a tree: its current root and the ring's slots in use. *)
SlotKeys(f, tree) ==
    {TreeRootKey(tree)} \cup {RootHistoryKey(tree, slot) : slot \in 0..(RingSize(f, tree) - 1)}

(* The same of the slots. *)
LEMMA NextTreeSlots ==
    ASSUME Good(forest), NEW n \in Trees(forest), RingDense(forest, n)
    PROVE  KeysBelow(forest.rootSlot, 2, n + 1)
              = KeysBelow(forest.rootSlot, 2, n) \cup SlotKeys(forest, n)
  <1>1. /\ forest.treeCount \in Nat /\ n \in Nat /\ forest.nextIndex[n] \in Nat
        /\ \A tree \in 0..(forest.treeCount - 1) : tree \in Nat
    BY DEF Good, ForestShapeOK, CountersOK, Trees
  <1>2. \A slot : RootHistoryKey(n, slot) \in DOMAIN forest.rootSlot <=>
                      slot \in 0..(RingSize(forest, n) - 1)
    BY <1>1, SlotsInUse
  <1>3. TreeRootKey(n) \in DOMAIN forest.rootSlot
    BY DEF Good, ForestShapeOK, SlotsOK
  <1>4. \A key \in DOMAIN forest.rootSlot :
           \/ \E tree \in 0..(forest.treeCount - 1) : key = TreeRootKey(tree)
           \/ \E tree \in 0..(forest.treeCount - 1) : \E slot : key = RootHistoryKey(tree, slot)
    BY DEF Good, ForestShapeOK, SlotsOK, ScannedKeys
  <1>5. \A tree : TreeRootKey(tree)[2] = tree /\ \A slot : RootHistoryKey(tree, slot)[2] = tree
    BY DEF TreeRootKey, RootHistoryKey
  <1>6. \A key \in SlotKeys(forest, n) : key \in DOMAIN forest.rootSlot /\ key[2] = n
    BY <1>2, <1>3, <1>5 DEF SlotKeys
  <1>7. ASSUME NEW key \in DOMAIN forest.rootSlot
        PROVE  key[2] < n + 1 <=> key[2] < n \/ key \in SlotKeys(forest, n)
    <2>1. PICK tree \in 0..(forest.treeCount - 1) :
             key = TreeRootKey(tree) \/ \E slot : key = RootHistoryKey(tree, slot)
      BY <1>4
    <2>2. tree \in Nat /\ key[2] = tree
      BY <1>1, <1>5, <2>1
    <2>3. tree < n + 1 <=> tree < n \/ tree = n
      BY <1>1, <2>2
    <2>4. tree = n => key \in SlotKeys(forest, n)
      BY <1>2, <2>1 DEF SlotKeys
    <2> QED
      BY <1>6, <2>2, <2>3, <2>4
  <1>8. n < n + 1
    BY <1>1
  <1> QED
    BY <1>6, <1>7, <1>8 DEF KeysBelow

(* Import of an exported tree after those before it. *)
LEMMA NextTreeCopied ==
    ASSUME Good(forest), Restorable(forest), NEW n \in Trees(forest),
           NEW g, Copied(g, n), NEW h, h = ImportTree(g, TreeState(n))
    PROVE  Copied(h, n + 1)
  <1>1. PICK next \in Nat : next = forest.nextIndex[n]
    BY DEF Good, ForestShapeOK, CountersOK
  <1>2. next > 0 /\ RingDense(forest, n) /\ n \in Nat
    BY <1>1 DEF Restorable, RingOK, Trees
  <1>3. n \in DOMAIN forest.nextIndex /\ n \in DOMAIN forest.frontier
    BY DEF Good, ForestShapeOK, CountersOK
  <1>4. TreeNextIndex(forest, n) = next /\ Frontier(forest, n) = forest.frontier[n]
    BY <1>1, <1>3 DEF TreeNextIndex, Frontier, Get
  <1>5. PICK state : state = TreeState(n)
    OBVIOUS
  <1>6. PICK size : size = RingSize(forest, n)
    OBVIOUS
  <1>7. /\ state.treeId = n /\ state.nextIndex = next
        /\ state.commitments = [i \in 1..next |-> forest.leaf[<<n, i - 1>>]]
        /\ state.frontier = ExportFrontier(forest.frontier[n], params.treeDepth)
        /\ state.merkleRoot = forest.rootSlot[TreeRootKey(n)]
        /\ state.rootHistory = Slots(forest, n, size)
    BY <1>1, <1>2, <1>4, <1>5, <1>6, RootHistoryIsRing DEF TreeState
  <1>8. size \in Nat
    BY <1>1, <1>2, <1>6, SlotsInUse, RootHistoryAssumption
  <1>9. PICK w : w = ImportRoots(g, n, state)
    OBVIOUS
  <1>10. Written(g, w, SlotKeys(forest, n), forest.rootSlot)
    <2>1. size = Len(state.rootHistory)
      BY <1>7, <1>8 DEF Slots
    <2>2. \A i \in 1..size :
             state.rootHistory[i] = forest.rootSlot[RootHistoryKey(n, i - 1)]
      BY <1>7 DEF Slots
    <2>3. \A key \in DOMAIN g.rootSlot : g.rootSlot[key] = forest.rootSlot[key]
      BY DEF Copied
    <2>4. Slotted(g)
      BY DEF Copied
    <2>5. state.merkleRoot = forest.rootSlot[TreeRootKey(n)]
      BY <1>7
    <2>6. PICK slots : slots = forest.rootSlot
      OBVIOUS
    <2>7. PICK keys : keys = {TreeRootKey(n)} \cup
                                {RootHistoryKey(n, slot) : slot \in 0..(size - 1)}
      OBVIOUS
    <2>8. Written(g, w, keys, slots)
      BY <1>8, <1>9, <2>1, <2>2, <2>3, <2>4, <2>5, <2>6, <2>7, ImportRootsWrites
    <2> QED
      BY <1>6, <2>6, <2>7, <2>8 DEF SlotKeys
  <1>11. PICK placed : placed = {<<n, i - 1>> : i \in DOMAIN state.commitments}
    OBVIOUS
  <1>12. PICK leaf : leaf = [key \in DOMAIN g.leaf \cup placed |->
                                IF key \in placed THEN state.commitments[key[2] + 1]
                                ELSE g.leaf[key]]
    OBVIOUS
  <1>13. PICK frontiers : frontiers = Put(g.frontier, n, ImportFrontier(state.frontier))
    OBVIOUS
  <1>14. PICK counters : counters = Put(g.nextIndex, n, next)
    OBVIOUS
  <1>15. h = [w EXCEPT !.leaf = leaf, !.frontier = frontiers, !.nextIndex = counters]
    BY <1>2, <1>5, <1>7, <1>9, <1>11, <1>12, <1>13, <1>14 DEF ImportTree
  <1>16. HasForestFields(w) /\ Slotted(w) /\ IndexKept(g, w)
    BY <1>10 DEF Written, Slotted
  <1>17. /\ h.leaf = leaf /\ h.frontier = frontiers /\ h.nextIndex = counters
         /\ h.treeCount = w.treeCount /\ h.activeTreeId = w.activeTreeId /\ h.used = w.used
         /\ h.rootSlot = w.rootSlot /\ h.rootIndex = w.rootIndex
         /\ HasForestFields(h)
    BY <1>15, <1>16 DEF HasForestFields
  <1>18. Slotted(h) /\ Exact(h)
    BY <1>16, <1>17, SameSlots DEF Copied, IndexKept
  <1>19. h.treeCount = 0 /\ h.activeTreeId = 0 /\ h.used = {}
    BY <1>10, <1>17 DEF Written, Copied
  <1>20. IsMap(leaf) /\ IsMap(frontiers) /\ IsMap(counters)
    BY <1>12, <1>13, <1>14, PutIsMap DEF IsMap
  <1>21. /\ DOMAIN leaf = KeysBelow(forest.leaf, 1, n + 1)
         /\ \A key \in DOMAIN leaf : leaf[key] = forest.leaf[key]
    <2>1. placed = {<<n, i>> : i \in 0..(next - 1)}
      <3>1. DOMAIN state.commitments = 1..next
        BY <1>7
      <3>2. \A i \in 1..next : i - 1 \in 0..(next - 1)
        OBVIOUS
      <3>3. \A i \in 0..(next - 1) : i + 1 \in 1..next /\ (i + 1) - 1 = i
        OBVIOUS
      <3> QED
        BY <1>11, <3>1, <3>2, <3>3
    <2>2. DOMAIN leaf = KeysBelow(forest.leaf, 1, n + 1)
      BY <1>1, <1>12, <2>1, NextTreeLeaves DEF Copied
    <2>3. \A i \in 0..(next - 1) : state.commitments[i + 1] = forest.leaf[<<n, i>>]
      BY <1>7
    <2>4. \A key \in placed : state.commitments[key[2] + 1] = forest.leaf[key]
      BY <2>1, <2>3
    <2> QED
      BY <1>12, <2>2, <2>4 DEF Copied
  <1>22. /\ DOMAIN h.rootSlot = KeysBelow(forest.rootSlot, 2, n + 1)
         /\ \A key \in DOMAIN h.rootSlot : h.rootSlot[key] = forest.rootSlot[key]
    BY <1>2, <1>10, <1>17, NextTreeSlots DEF Written, Copied
  <1>23. 0..((n + 1) - 1) = 0..(n - 1) \cup {n} /\ n \notin 0..(n - 1)
    BY <1>2
  <1>24. DOMAIN counters = 0..((n + 1) - 1) /\ DOMAIN frontiers = 0..((n + 1) - 1)
    <2>1. DOMAIN g.nextIndex = 0..(n - 1) /\ DOMAIN g.frontier = 0..(n - 1)
      BY DEF Copied
    <2>2. DOMAIN counters = DOMAIN g.nextIndex \cup {n}
      BY <1>14, PutDomain
    <2>3. DOMAIN frontiers = DOMAIN g.frontier \cup {n}
      BY <1>13, PutDomain
    <2> QED
      BY <1>23, <2>1, <2>2, <2>3
  <1>25. ASSUME NEW tree \in 0..((n + 1) - 1)
         PROVE  /\ counters[tree] = forest.nextIndex[tree]
                /\ frontiers[tree] = KeptBelow(forest.frontier[tree], params.treeDepth)
    <2>1. CASE tree = n
      <3>1. counters[n] = next /\ frontiers[n] = ImportFrontier(state.frontier)
        BY <1>13, <1>14 DEF Put
      <3>2. NoNil(forest.frontier[n])
        BY <1>3 DEF Restorable, MapsOK
      <3>3. ImportFrontier(state.frontier) = KeptBelow(forest.frontier[n], params.treeDepth)
        BY <1>7, <3>2, FrontierComesBack
      <3> QED
        BY <1>1, <2>1, <3>1, <3>3
    <2>2. CASE tree # n
      <3>1. tree \in 0..(n - 1)
        BY <1>23, <2>2
      <3>2. tree \in DOMAIN g.nextIndex /\ tree \in DOMAIN g.frontier
        BY <3>1 DEF Copied
      <3>3. counters[tree] = g.nextIndex[tree] /\ frontiers[tree] = g.frontier[tree]
        BY <1>13, <1>14, <2>2, <3>2, PutElsewhere
      <3> QED
        BY <3>1, <3>3 DEF Copied
    <2> QED
      BY <2>1, <2>2
  <1> QED
    BY <1>17, <1>18, <1>19, <1>20, <1>21, <1>22, <1>24, <1>25 DEF Copied

-----------------------------------------------------------------------------
(***************************************************************************)
(* Import of the whole store.                                              *)
(***************************************************************************)

IsTreesAfter(after, trees, len) ==
    after = [n \in 0..len |-> IF n = 0 THEN EmptyForest ELSE ImportTree(after[n - 1], trees[n])]

(* The loop over the trees of a genesis file. *)
LEMMA TreesAfterExist ==
    ASSUME NEW trees, NEW len \in Nat
    PROVE  \E after : IsTreesAfter(after, trees, len)
  <1> DEFINE G == {n \in Nat : \E after : IsTreesAfter(after, trees, n)}
             Next1(after, n) == ImportTree(after[n - 1], trees[n])
  <1>1. 0 \in G
    <2>1. IsTreesAfter([n \in 0..0 |-> EmptyForest], trees, 0)
      BY DEF IsTreesAfter
    <2> QED
      BY <2>1
  <1>2. ASSUME NEW m \in Nat, m \in G PROVE m + 1 \in G
    <2>1. PICK after : IsTreesAfter(after, trees, m)
      BY <1>2
    <2>2. PICK v : v = [n \in 0..(m + 1) |-> IF n = 0 THEN EmptyForest ELSE Next1(after, n)]
      OBVIOUS
    <2>3. \A n \in 0..m : v[n] = after[n]
      <3>1. \A n \in 0..m : after[n] = IF n = 0 THEN EmptyForest ELSE Next1(after, n)
        BY <2>1 DEF IsTreesAfter
      <3>2. \A n \in 0..m : n \in 0..(m + 1)
        OBVIOUS
      <3> HIDE DEF Next1
      <3> QED
        BY <2>2, <3>1, <3>2
    <2>4. \A n \in 0..(m + 1) : v[n] = IF n = 0 THEN EmptyForest ELSE Next1(v, n)
      <3> TAKE n \in 0..(m + 1)
      <3>1. n # 0 => n - 1 \in 0..m
        OBVIOUS
      <3> QED
        BY <2>2, <2>3, <3>1
    <2>5. IsTreesAfter(v, trees, m + 1)
      BY <2>2, <2>4 DEF IsTreesAfter
    <2> QED
      BY <2>5
  <1>3. \A n \in Nat : n \in G
    <2> HIDE DEF G
    <2> QED
      BY <1>1, <1>2, NumberInduction
  <1> QED
    BY <1>3

(* Before the first tree. *)
LEMMA NoneCopied ==
    ASSUME Good(forest), NEW g, g = EmptyForest
    PROVE  Copied(g, 0)
  <1>1. Good(g) /\ Exact(g)
    BY EmptyForestGood
  <1>2. /\ g.treeCount = 0 /\ g.activeTreeId = 0 /\ g.used = {}
        /\ g.leaf = <<>> /\ g.frontier = <<>> /\ g.nextIndex = <<>> /\ g.rootSlot = <<>>
    BY DEF EmptyForest
  <1>3. 0..(0 - 1) = {}
    OBVIOUS
  <1>4. KeysBelow(forest.leaf, 1, 0) = {}
    <2>1. ASSUME NEW key \in DOMAIN forest.leaf PROVE ~ (key[1] < 0)
      <3>1. PICK tree \in Trees(forest) :
               \E i \in 0..(forest.nextIndex[tree] - 1) : key = <<tree, i>>
        BY DEF Good, ForestShapeOK, LeavesOK
      <3>2. key[1] = tree /\ tree \in Nat
        BY <3>1 DEF Good, ForestShapeOK, CountersOK, Trees
      <3> QED
        BY <3>2
    <2> QED
      BY <2>1 DEF KeysBelow
  <1>5. KeysBelow(forest.rootSlot, 2, 0) = {}
    <2>1. ASSUME NEW key \in DOMAIN forest.rootSlot PROVE ~ (key[2] < 0)
      <3>1. PICK tree \in 0..(forest.treeCount - 1) :
               key = TreeRootKey(tree) \/ \E slot : key = RootHistoryKey(tree, slot)
        BY DEF Good, ForestShapeOK, SlotsOK, ScannedKeys
      <3>2. key[2] = tree /\ tree \in Nat
        BY <3>1 DEF Good, ForestShapeOK, CountersOK, TreeRootKey, RootHistoryKey
      <3> QED
        BY <3>2
    <2> QED
      BY <2>1 DEF KeysBelow
  <1>6. DOMAIN <<>> = {} /\ IsMap(<<>>)
    BY DEF IsMap
  <1> QED
    BY <1>1, <1>2, <1>3, <1>4, <1>5, <1>6 DEF Copied, Good

(* All trees have been imported once the loop ends. *)
LEMMA AllTreesCopied ==
    ASSUME Good(forest), Restorable(forest)
    PROVE  Copied(ImportTrees(ExportGenesis), forest.treeCount)
  <1>1. PICK count \in Nat : count = forest.treeCount
    BY DEF Good, ForestShapeOK, CountersOK
  <1>2. PICK gs : gs = ExportGenesis
    OBVIOUS
  <1>3. PICK trees : trees = [i \in 1..count |-> TreeState(i - 1)]
    OBVIOUS
  <1>4. gs.trees = trees
    BY <1>1, <1>2, <1>3 DEF ExportGenesis
  <1>5. Len(trees) = count
    BY <1>3
  <1>6. PICK after : IsTreesAfter(after, trees, count) /\ ImportTrees(gs) = after[count]
    <2>1. PICK after : after = CHOOSE a : IsTreesAfter(a, gs.trees, Len(gs.trees))
      OBVIOUS
    <2>2. ImportTrees(gs) = after[Len(gs.trees)]
      BY <2>1 DEF ImportTrees, IsTreesAfter
    <2> QED
      BY <1>4, <1>5, <2>1, <2>2, TreesAfterExist
  <1> DEFINE G == {n \in Nat : n <= count => Copied(after[n], n)}
  <1>7. 0 \in G
    <2>1. after[0] = EmptyForest
      BY <1>6 DEF IsTreesAfter
    <2>2. Copied(after[0], 0)
      BY <2>1, NoneCopied
    <2> QED
      BY <2>2
  <1>8. ASSUME NEW n \in Nat, n \in G PROVE n + 1 \in G
    <2> SUFFICES ASSUME n + 1 <= count PROVE Copied(after[n + 1], n + 1)
      OBVIOUS
    <2>1. Copied(after[n], n)
      BY <1>8
    <2>2. n \in Trees(forest)
      BY <1>1 DEF Trees
    <2>3. after[n + 1] = ImportTree(after[n], TreeState(n))
      <3>1. n + 1 \in 0..count /\ n + 1 # 0 /\ (n + 1) - 1 = n /\ n + 1 \in 1..count
        OBVIOUS
      <3>2. after[n + 1] = ImportTree(after[n], trees[n + 1])
        BY <1>6, <3>1 DEF IsTreesAfter
      <3>3. trees[n + 1] = TreeState(n)
        BY <1>3, <3>1
      <3> QED
        BY <3>2, <3>3
    <2>4. PICK g, h : g = after[n] /\ h = after[n + 1]
      OBVIOUS
    <2>5. Copied(h, n + 1)
      BY <2>1, <2>2, <2>3, <2>4, NextTreeCopied
    <2> QED
      BY <2>4, <2>5
  <1>9. Copied(after[count], count)
    <2>1. count \in G
      <3> HIDE DEF G
      <3> QED
        BY <1>7, <1>8, NumberInduction
    <2>2. count <= count
      OBVIOUS
    <2> QED
      BY <2>1, <2>2, Zenon
  <1> QED
    BY <1>1, <1>2, <1>6, <1>9

(* The frontiers of an imported chain: the levels below the depth in force. *)
ImportedFrontiers ==
    [tree \in Trees(forest) |-> KeptBelow(forest.frontier[tree], params.treeDepth)]

(* What is exported and imported is the forest but for those frontiers. *)
LEMMA ForestComesBack ==
    ASSUME Good(forest), Exact(forest), Restorable(forest),
           NEW g, g = ImportForest(ExportGenesis)
    PROVE  g = [forest EXCEPT !.frontier = ImportedFrontiers]
  <1>1. PICK count \in Nat : count = forest.treeCount
    BY DEF Good, ForestShapeOK, CountersOK
  <1>2. PICK e : e = ImportTrees(ExportGenesis)
    OBVIOUS
  <1>3. Copied(e, count)
    BY <1>1, <1>2, AllTreesCopied
  <1>4. g = [e EXCEPT !.treeCount = forest.treeCount, !.activeTreeId = forest.activeTreeId,
                      !.used = forest.used]
    BY <1>2 DEF ImportForest, ExportGenesis
  <1>5. HasForestFields(e) /\ HasForestFields(forest)
    BY <1>3 DEF Copied, Slotted, Good
  <1>6. Trees(forest) = 0..(count - 1)
    BY <1>1 DEF Trees
  <1>7. e.leaf = forest.leaf
    <2>1. ASSUME NEW key \in DOMAIN forest.leaf PROVE key[1] < count
      <3>1. PICK tree \in Trees(forest) :
               \E i \in 0..(forest.nextIndex[tree] - 1) : key = <<tree, i>>
        BY DEF Good, ForestShapeOK, LeavesOK
      <3>2. key[1] = tree
        BY <3>1
      <3> QED
        BY <1>6, <3>2
    <2>2. DOMAIN e.leaf = DOMAIN forest.leaf
      BY <1>3, <2>1 DEF Copied, KeysBelow
    <2>3. \A key \in DOMAIN e.leaf : e.leaf[key] = forest.leaf[key]
      BY <1>3 DEF Copied
    <2>4. IsMap(e.leaf) /\ IsMap(forest.leaf)
      BY <1>3 DEF Copied, Restorable, MapsOK
    <2> QED
      BY <2>2, <2>3, <2>4 DEF IsMap
  <1>8. e.rootSlot = forest.rootSlot
    <2>1. ASSUME NEW key \in DOMAIN forest.rootSlot PROVE key[2] < count
      <3>1. PICK tree \in 0..(count - 1) :
               key = TreeRootKey(tree) \/ \E slot : key = RootHistoryKey(tree, slot)
        BY <1>1 DEF Good, ForestShapeOK, SlotsOK, ScannedKeys
      <3>2. key[2] = tree
        BY <3>1 DEF TreeRootKey, RootHistoryKey
      <3> QED
        BY <3>2
    <2>2. DOMAIN e.rootSlot = DOMAIN forest.rootSlot
      BY <1>3, <2>1 DEF Copied, KeysBelow
    <2>3. \A key \in DOMAIN e.rootSlot : e.rootSlot[key] = forest.rootSlot[key]
      BY <1>3 DEF Copied
    <2>4. IsMap(e.rootSlot) /\ IsMap(forest.rootSlot)
      BY <1>3 DEF Copied, Slotted, Good, IsMap
    <2> QED
      BY <2>2, <2>3, <2>4 DEF IsMap
  <1>9. e.rootIndex = forest.rootIndex
    BY <1>3, <1>8 DEF Copied, Exact
  <1>10. e.nextIndex = forest.nextIndex
    <2>1. IsMap(e.nextIndex) /\ DOMAIN e.nextIndex = Trees(forest)
      BY <1>3, <1>6 DEF Copied
    <2>2. \A tree \in Trees(forest) : e.nextIndex[tree] = forest.nextIndex[tree]
      BY <1>3, <1>6 DEF Copied
    <2>3. forest.nextIndex \in [Trees(forest) -> Nat]
      BY DEF Good, ForestShapeOK, CountersOK
    <2> QED
      BY <2>1, <2>2, <2>3 DEF IsMap
  <1>11. e.frontier = ImportedFrontiers
    <2>1. IsMap(e.frontier) /\ DOMAIN e.frontier = Trees(forest)
      BY <1>3, <1>6 DEF Copied
    <2>2. \A tree \in Trees(forest) :
             e.frontier[tree] = KeptBelow(forest.frontier[tree], params.treeDepth)
      BY <1>3, <1>6 DEF Copied
    <2> QED
      BY <2>1, <2>2 DEF IsMap, ImportedFrontiers
  <1>12. g = [forest EXCEPT !.frontier = e.frontier]
    BY <1>4, <1>5, <1>7, <1>8, <1>9, <1>10 DEF HasForestFields
  <1> QED
    BY <1>11, <1>12

-----------------------------------------------------------------------------
(***************************************************************************)
(* The registration tree comes back.                                       *)
(***************************************************************************)

(* Everything of the registration tree comes back; its root is in the store *)
(* afterwards, whether it was before or not.                                *)
LEMMA RegistrationComesBack ==
    ASSUME Registers(registration), RegRestorable(registration),
           NEW s, s = ImportRegistration(ExportGenesis)
    PROVE  s = [nextIndex |-> registration.nextIndex,
                leaf      |-> registration.leaf,
                frontier  |-> registration.frontier,
                root      |-> Put(<<>>, RegRootKey, GetRegMerkleRoot(registration)),
                used      |-> registration.used]
  <1>1. PICK r, count, identities : /\ r = registration /\ count = r.nextIndex
                                    /\ identities = RegLeaves(r)
    OBVIOUS
  <1>2. /\ count \in Nat /\ DOMAIN r.leaf = 0..(count - 1)
        /\ r.leaf \in [0..(count - 1) -> Identity]
        /\ DOMAIN r.frontier \subseteq 0..(RegTreeDepth - 1)
        /\ r.used = {r.leaf[i] : i \in DOMAIN r.leaf}
    BY <1>1 DEF Registers, RegistrationTypeOK
  <1>3. identities = [i \in 1..count |-> r.leaf[i - 1]]
    BY <1>1 DEF RegLeaves
  <1>4. [i \in 0..(count - 1) |-> identities[i + 1]] = r.leaf
    <2>1. \A i \in 0..(count - 1) : i + 1 \in 1..count /\ (i + 1) - 1 = i
      BY <1>2
    <2>2. \A i \in 0..(count - 1) : identities[i + 1] = r.leaf[i]
      BY <1>3, <2>1
    <2> QED
      BY <1>2, <2>2
  <1>5. {identities[i] : i \in DOMAIN identities} = r.used
    <2>1. \A i \in 1..count : i - 1 \in 0..(count - 1)
      BY <1>2
    <2>2. \A i \in 0..(count - 1) : i + 1 \in 1..count /\ (i + 1) - 1 = i
      BY <1>2
    <2>3. DOMAIN identities = 1..count /\ \A i \in 1..count : identities[i] = r.leaf[i - 1]
      BY <1>3
    <2>4. \A i \in 0..(count - 1) : identities[i + 1] = r.leaf[i]
      BY <2>2, <2>3
    <2>5. \A i \in 1..count : identities[i] \in r.used
      BY <1>2, <2>1, <2>3
    <2>6. \A i \in 0..(count - 1) : r.leaf[i] \in {identities[j] : j \in DOMAIN identities}
      BY <2>2, <2>3, <2>4
    <2>7. \A e \in r.used : e \in {identities[j] : j \in DOMAIN identities}
      BY <1>2, <2>6
    <2> QED
      BY <2>3, <2>5, <2>7
  <1>6. ImportFrontier(ExportFrontier(r.frontier, RegTreeDepth)) = r.frontier
    <2>1. IsMap(r.frontier) /\ NoNil(r.frontier)
      BY <1>1 DEF RegRestorable
    <2>2. {l \in 0..(RegTreeDepth - 1) : l \in DOMAIN r.frontier} = DOMAIN r.frontier
      BY <1>2
    <2>3. KeptBelow(r.frontier, RegTreeDepth) = r.frontier
      BY <2>1, <2>2 DEF KeptBelow, IsMap
    <2> QED
      BY <2>1, <2>3, FrontierComesBack
  <1>7. PICK gs : gs = ExportGenesis
    OBVIOUS
  <1>8. /\ gs.regNextIndex = count /\ gs.regCommitments = identities
        /\ gs.regFrontier = ExportFrontier(r.frontier, RegTreeDepth)
        /\ gs.regMerkleRoot = GetRegMerkleRoot(r)
    BY <1>1, <1>7 DEF ExportGenesis
  <1> QED
    BY <1>1, <1>4, <1>5, <1>6, <1>7, <1>8 DEF ImportRegistration

(* Of a tree that comes back nothing but the stored root can differ, and   *)
(* that one reads alike.                                                    *)
LEMMA RegistrationAlike ==
    ASSUME Registers(registration), RegRestorable(registration),
           NEW s, s = ImportRegistration(ExportGenesis)
    PROVE  /\ s.nextIndex = registration.nextIndex /\ s.leaf = registration.leaf
           /\ s.frontier = registration.frontier /\ s.used = registration.used
           /\ GetRegMerkleRoot(s) = GetRegMerkleRoot(registration)
           /\ [s EXCEPT !.root = registration.root] = registration
           /\ RegRestorable(s)
  <1>1. PICK r, root : r = registration /\ root = GetRegMerkleRoot(registration)
    OBVIOUS
  <1>2. s = [nextIndex |-> r.nextIndex, leaf |-> r.leaf, frontier |-> r.frontier,
             root |-> Put(<<>>, RegRootKey, root), used |-> r.used]
    BY <1>1, RegistrationComesBack
  <1>3. GetRegMerkleRoot(s) = root
    <2>1. s.root = Put(<<>>, RegRootKey, root)
      BY <1>2
    <2> QED
      BY <2>1 DEF GetRegMerkleRoot, Get, Put
  <1>4. r = [nextIndex |-> r.nextIndex, leaf |-> r.leaf, frontier |-> r.frontier,
             root |-> r.root, used |-> r.used]
    BY <1>1 DEF RegRestorable
  <1>5. [s EXCEPT !.root = r.root] = r
    BY <1>2, <1>4
  <1>6. RegRestorable(s)
    <2>1. s.frontier = r.frontier
      BY <1>2
    <2> QED
      BY <1>1, <1>2, <2>1 DEF RegRestorable
  <1> QED
    BY <1>1, <1>2, <1>3, <1>5, <1>6

-----------------------------------------------------------------------------
(***************************************************************************)
(* The invariant that a restart needs, and keeps.                          *)
(***************************************************************************)

(* The pool's invariant, and that everything the export reads is there. *)
RestartInv ==
    /\ LedgerInv
    /\ DOMAIN auditorData \subseteq forest.used \cup registration.used
    /\ Restorable(forest) /\ RegRestorable(registration)

(* A forest with other frontiers, one for each tree, is as good. *)
LEMMA FrontiersReplaced ==
    ASSUME NEW f, ForestInv(f), NEW frontiers, DOMAIN frontiers = Trees(f),
           NEW g, g = [f EXCEPT !.frontier = frontiers]
    PROVE  /\ ForestInv(g) /\ g.frontier = frontiers
           /\ g.treeCount = f.treeCount /\ g.activeTreeId = f.activeTreeId
           /\ g.nextIndex = f.nextIndex /\ g.leaf = f.leaf
           /\ g.rootSlot = f.rootSlot /\ g.rootIndex = f.rootIndex /\ g.used = f.used
  <1>1. Good(f) /\ UniqueLeaves(f) /\ LeavesAreNotes(f) /\ Exact(f)
    BY DEF ForestInv
  <1>2. HasForestFields(f)
    BY <1>1 DEF Good, Slotted
  <1>3. /\ HasForestFields(g) /\ g.frontier = frontiers
        /\ g.treeCount = f.treeCount /\ g.activeTreeId = f.activeTreeId
        /\ g.nextIndex = f.nextIndex /\ g.leaf = f.leaf
        /\ g.rootSlot = f.rootSlot /\ g.rootIndex = f.rootIndex /\ g.used = f.used
    BY <1>2 DEF HasForestFields
  <1>4. Trees(g) = Trees(f)
    BY <1>3 DEF Trees
  <1>5. CountersOK(g)
    BY <1>1, <1>3, <1>4 DEF Good, ForestShapeOK, CountersOK
  <1>6. LeavesOK(g) /\ SlotsOK(g)
    BY <1>1, <1>3, <1>4 DEF Good, ForestShapeOK, LeavesOK, SlotsOK
  <1>7. Slotted(g)
    BY <1>1, <1>3 DEF Good, Slotted
  <1>8. UniqueLeaves(g) /\ LeavesAreNotes(g) /\ Exact(g)
    BY <1>1, <1>3 DEF UniqueLeaves, LeavesAreNotes, Exact
  <1> QED
    BY <1>3, <1>5, <1>6, <1>7, <1>8 DEF ForestInv, Good, ForestShapeOK

(* What a restart does to the state. *)
LEMMA RestartKeepsState ==
    ASSUME RestartInv, Restart
    PROVE  /\ forest' = [forest EXCEPT !.frontier = ImportedFrontiers]
           /\ registration' = ImportRegistration(ExportGenesis)
           /\ params' = params /\ vks' = vks /\ spent' = spent
           /\ escrow' = escrow /\ wallet' = wallet
           /\ auditorData' = auditorData /\ txHash' = Unset
  <1>1. PICK gs : gs = ExportGenesis
    OBVIOUS
  <1>2. /\ gs.params = params /\ gs.verificationKeys = vks
        /\ gs.nullifiers = spent /\ gs.auditorData = auditorData
    BY <1>1 DEF ExportGenesis
  <1>3. Good(forest) /\ Exact(forest) /\ Restorable(forest)
    BY DEF RestartInv, LedgerInv, PoolInv, ForestInv
  <1>4. forest' = ImportForest(ExportGenesis)
    BY DEF Restart
  <1>5. forest' = [forest EXCEPT !.frontier = ImportedFrontiers]
    BY <1>3, <1>4, ForestComesBack
  <1> QED
    BY <1>1, <1>2, <1>5 DEF Restart

(* A restart keeps the maps of the store maps, and the rings rings. *)
LEMMA ForestStaysRestorable ==
    ASSUME RestartInv, Restart
    PROVE  ForestInv(forest') /\ Restorable(forest') /\ ForestGrown(forest')
  <1>1. PICK f, g, frontiers : /\ f = forest /\ g = forest' /\ frontiers = ImportedFrontiers
    OBVIOUS
  <1>2. g = [f EXCEPT !.frontier = frontiers]
    BY <1>1, RestartKeepsState
  <1>3. ForestInv(f) /\ Restorable(f) /\ ForestGrown(f)
    BY <1>1 DEF RestartInv, LedgerInv, PoolInv
  <1>4. /\ frontiers = [tree \in Trees(f) |-> KeptBelow(f.frontier[tree], params.treeDepth)]
        /\ DOMAIN frontiers = Trees(f) /\ IsMap(frontiers)
    BY <1>1 DEF ImportedFrontiers, IsMap
  <1>5. /\ ForestInv(g) /\ g.frontier = frontiers
        /\ g.treeCount = f.treeCount
        /\ g.nextIndex = f.nextIndex /\ g.leaf = f.leaf
        /\ g.rootSlot = f.rootSlot /\ g.used = f.used
    BY <1>2, <1>3, <1>4, FrontiersReplaced
  <1>6. DOMAIN f.frontier = Trees(f)
    BY <1>3 DEF ForestInv, Good, ForestShapeOK, CountersOK
  <1>7. ASSUME NEW tree \in Trees(f)
        PROVE  /\ frontiers[tree] = KeptBelow(f.frontier[tree], params.treeDepth)
               /\ IsMap(frontiers[tree])
               /\ DOMAIN frontiers[tree] \subseteq DOMAIN f.frontier[tree]
               /\ \A level \in DOMAIN frontiers[tree] :
                     frontiers[tree][level] = f.frontier[tree][level]
    <2>1. frontiers[tree] = KeptBelow(f.frontier[tree], params.treeDepth)
      BY <1>4
    <2> QED
      BY <2>1 DEF KeptBelow, IsMap
  <1>8. MapsOK(g)
    <2>1. IsMap(g.leaf)
      BY <1>3, <1>5 DEF Restorable, MapsOK
    <2>2. \A tree \in Trees(f) : IsMap(f.frontier[tree]) /\ NoNil(f.frontier[tree])
      BY <1>3, <1>6 DEF Restorable, MapsOK
    <2>3. \A tree \in Trees(f) : IsMap(frontiers[tree]) /\ NoNil(frontiers[tree])
      BY <1>7, <2>2 DEF NoNil
    <2> QED
      BY <1>4, <1>5, <2>1, <2>3 DEF MapsOK
  <1>9. Restorable(g)
    <2>1. Trees(g) = Trees(f)
      BY <1>5 DEF Trees
    <2>2. ASSUME NEW tree \in Trees(f) PROVE RingOK(g, tree)
      <3>1. RingOK(f, tree)
        BY <1>3 DEF Restorable
      <3> QED
        BY <1>5, <3>1 DEF RingOK, RingDense
    <2> QED
      BY <1>8, <2>1, <2>2 DEF Restorable
  <1>10. ForestGrown(g)
    <2>1. PICK K : Grown(K, f.used) /\ MadeOf(f, K)
      BY <1>3 DEF ForestGrown
    <2>2. \A tree \in Trees(f) : NodesIn(frontiers[tree], K)
      BY <1>6, <1>7, <2>1 DEF MadeOf, NodesIn
    <2>3. MadeOf(g, K)
      BY <1>4, <1>5, <2>1, <2>2 DEF MadeOf
    <2> QED
      BY <1>5, <2>1, <2>3 DEF ForestGrown
  <1> QED
    BY <1>1, <1>5, <1>9, <1>10

(* A restart keeps the invariant: coins, notes, identities and rings are    *)
(* those from before.                                                       *)
LEMMA RestartKeepsInv ==
    ASSUME RestartInv, Restart
    PROVE  /\ RestartInv'
           /\ forest'.used = forest.used /\ forest'.leaf = forest.leaf
           /\ forest'.treeCount = forest.treeCount
           /\ forest'.nextIndex = forest.nextIndex
           /\ forest'.rootSlot = forest.rootSlot /\ forest'.rootIndex = forest.rootIndex
  <1>1. /\ forest' = [forest EXCEPT !.frontier = ImportedFrontiers]
        /\ registration' = ImportRegistration(ExportGenesis)
        /\ params' = params /\ vks' = vks /\ spent' = spent
        /\ escrow' = escrow /\ wallet' = wallet
        /\ auditorData' = auditorData /\ txHash' = Unset
    BY RestartKeepsState
  <1>2. PoolInv /\ ForestInv(forest) /\ Registers(registration) /\ RegRestorable(registration)
    BY DEF RestartInv, LedgerInv, PoolInv
  <1>3. ForestInv(forest') /\ Restorable(forest') /\ ForestGrown(forest')
    BY ForestStaysRestorable
  <1>4. /\ forest'.used = forest.used /\ forest'.leaf = forest.leaf
        /\ forest'.treeCount = forest.treeCount
        /\ forest'.nextIndex = forest.nextIndex
        /\ forest'.rootSlot = forest.rootSlot /\ forest'.rootIndex = forest.rootIndex
    <2>1. DOMAIN ImportedFrontiers = Trees(forest)
      BY DEF ImportedFrontiers
    <2> QED
      BY <1>1, <1>2, <2>1, FrontiersReplaced
  <1>5. /\ registration'.nextIndex = registration.nextIndex
        /\ registration'.leaf = registration.leaf
        /\ registration'.frontier = registration.frontier
        /\ registration'.used = registration.used
        /\ GetRegMerkleRoot(registration') = GetRegMerkleRoot(registration)
        /\ RegRestorable(registration')
    BY <1>1, <1>2, RegistrationAlike
  <1>6. Registers(registration')
    <2>1. RegLeaves(registration') = RegLeaves(registration)
      BY <1>5 DEF RegLeaves
    <2>2. RegistrationTypeOK(registration')
      BY <1>2, <1>5 DEF Registers, RegistrationTypeOK
    <2> QED
      BY <1>2, <1>5, <2>1, <2>2 DEF Registers
  <1>7. TypeOK'
    <2>1. ForestTypeOK(forest')
      BY <1>3, ForestTyped
    <2>2. RegistrationTypeOK(registration')
      BY <1>6 DEF Registers
    <2> QED
      BY <1>1, <1>2, <2>1, <2>2 DEF PoolInv, TypeOK
  <1>8. PoolInv'
    BY <1>3, <1>6, <1>7 DEF PoolInv
  <1>9. RegGrown(registration')
    BY <1>5 DEF RestartInv, LedgerInv, RegGrown
  <1>10. Covered'
    BY <1>1, <1>4 DEF RestartInv, LedgerInv, Covered
  <1>11. LedgerInv'
    BY <1>1, <1>3, <1>4, <1>8, <1>9, <1>10 DEF RestartInv, LedgerInv
  <1> QED
    BY <1>1, <1>3, <1>4, <1>5, <1>11 DEF RestartInv

(* An empty store has nothing that could not be restored. *)
LEMMA RestartInit == Init => RestartInv
  <1> SUFFICES ASSUME Init PROVE RestartInv
    OBVIOUS
  <1>1. forest = EmptyForest /\ registration = EmptyRegistration /\ auditorData = <<>>
    BY DEF Init
  <1>2. DOMAIN auditorData = {}
    BY <1>1
  <1> QED
    BY <1>1, <1>2, LedgerInit, EmptyRestorable, EmptyRegRestorable DEF RestartInv

(* An output is restorable like every note. *)
LEMMA InsertOutputRestorable ==
    ASSUME NEW f, Good(f), Restorable(f), params.treeDepth \in Nat,
           NEW note, NEW g, g = InsertOutput(f, note)
    PROVE  Restorable(g)
  <1>1. CASE note = Zero
    BY <1>1 DEF InsertOutput
  <1>2. CASE note # Zero
    <2>1. g = InsertNote(f, note, params.treeDepth)
      BY <1>2 DEF InsertOutput
    <2> QED
      BY <2>1, InsertNoteRestorable
  <1> QED
    BY <1>1, <1>2

(* Every other step keeps the invariant too. *)
LEMMA PoolStepKeepsInv == RestartInv /\ [AnyStep]_vars => RestartInv'
  <1> SUFFICES ASSUME RestartInv, [AnyStep]_vars PROVE RestartInv'
    OBVIOUS
  <1>1. LedgerInv' /\ DOMAIN auditorData' \subseteq forest'.used \cup registration'.used
    BY LedgerNext, DataNext DEF RestartInv, DataInv, LedgerInv
  <1>2. Good(forest) /\ Restorable(forest) /\ RegRestorable(registration)
    BY DEF RestartInv, LedgerInv, PoolInv, ForestInv
  <1>3. params.treeDepth \in Nat
    BY DEF RestartInv, LedgerInv, PoolInv, TypeOK, ParamsType
  <1>4. CASE UNCHANGED <<forest, registration>>
    BY <1>1, <1>2, <1>4 DEF RestartInv
  <1>5. CASE BeginTx
    BY <1>4, <1>5 DEF BeginTx, chainVars
  <1>6. ASSUME NEW identity \in Identity, NEW chainId \in ChainIds, NEW key \in Keys,
               NEW data \in AttachData, Register(identity, chainId, key, data)
        PROVE  RestartInv'
    <2>1. registration' = InsertRegCommitment(registration, identity) /\ forest' = forest
      BY <1>6 DEF Register
    <2>2. RegRestorable(registration')
      BY <1>2, <2>1, InsertRegRestorable
    <2> QED
      BY <1>1, <1>2, <2>1, <2>2 DEF RestartInv
  <1>7. ASSUME NEW note \in Commitment, NEW denom \in Denom, NEW key \in Keys,
               NEW data \in AttachData, NEW amount \in 1..(FieldModulus - 1),
               Deposit(note, amount, denom, key, data)
        PROVE  RestartInv'
    <2>1. forest' = InsertNote(forest, note, params.treeDepth) /\ registration' = registration
      BY <1>7 DEF Deposit
    <2>2. Restorable(forest')
      BY <1>2, <1>3, <2>1, InsertNoteRestorable
    <2> QED
      BY <1>1, <1>2, <2>1, <2>2 DEF RestartInv
  <1>8. CASE AnyTransact
    <2>1. PICK msg : msg.outputs \in NotePair /\ Transact(msg)
      BY <1>8 DEF AnyTransact
    <2>2. PICK middle : middle = InsertOutput(forest, msg.outputs[1])
      OBVIOUS
    <2>3. msg.outputs[1] \in Commitment \cup {Zero}
      BY <2>1 DEF NotePair
    <2>4. ForestInv(forest) /\ CanInsertOutput(forest, msg.outputs[1])
      BY <2>1 DEF RestartInv, LedgerInv, PoolInv, Transact, CanTransact, OutputsAccepted
    <2>5. Good(middle)
      BY <2>2, <2>3, <2>4, InsertOutputGood DEF ForestInv
    <2>6. Restorable(middle)
      BY <1>2, <1>3, <2>2, InsertOutputRestorable
    <2>7. /\ forest' = InsertOutput(middle, msg.outputs[2])
          /\ registration' = registration
      BY <2>1, <2>2 DEF Transact, AfterFirstOutput
    <2>8. Restorable(forest')
      BY <1>3, <2>5, <2>6, <2>7, InsertOutputRestorable
    <2> QED
      BY <1>1, <1>2, <2>7, <2>8 DEF RestartInv
  <1>9. ASSUME NEW p \in ParamChoices, UpdateParams(p) PROVE RestartInv'
    BY <1>4, <1>9 DEF UpdateParams
  <1>10. ASSUME NEW circuit \in Circuit, SetVerificationKey(circuit) PROVE RestartInv'
    BY <1>4, <1>10 DEF SetVerificationKey
  <1>11. CASE UNCHANGED vars
    BY <1>4, <1>11 DEF vars
  <1> QED
    BY <1>5, <1>6, <1>7, <1>8, <1>9, <1>10, <1>11 DEF AnyStep

(* Restarts and steps, in any order. *)
LEMMA RestartNextKeepsInv == RestartInv /\ [RestartNext]_vars => RestartInv'
  <1> SUFFICES ASSUME RestartInv, [RestartNext]_vars PROVE RestartInv'
    OBVIOUS
  <1>1. CASE Restart
    BY <1>1, RestartKeepsInv
  <1>2. CASE [Next]_vars
    BY <1>2, NextIsAnyStep, PoolStepKeepsInv
  <1> QED
    BY <1>1, <1>2 DEF RestartNext

-----------------------------------------------------------------------------
(***************************************************************************)
(* What outlives a restart.                                                *)
(***************************************************************************)

(* What RestartIsInvisible says of one step. *)
Invisible ==
    Restart =>
        /\ [forest' EXCEPT !.frontier = forest.frontier] = forest
        /\ FrontierInForce(forest') = FrontierInForce(forest)
        /\ [registration' EXCEPT !.root = registration.root] = registration
        /\ GetRegMerkleRoot(registration') = GetRegMerkleRoot(registration)

(* The left siblings below the depth in force are the ones that come back. *)
LEMMA SameLeftSiblings ==
    ASSUME RestartInv, Restart
    PROVE  FrontierInForce(forest') = FrontierInForce(forest)
  <1>1. PICK depth, g : depth = params.treeDepth /\ g = forest'
    OBVIOUS
  <1>2. g = [forest EXCEPT !.frontier = ImportedFrontiers] /\ HasForestFields(forest)
    BY <1>1, RestartKeepsState DEF RestartInv, LedgerInv, PoolInv, ForestInv, Good, Slotted
  <1>3. g.frontier = ImportedFrontiers /\ g.treeCount = forest.treeCount
    BY <1>2 DEF HasForestFields
  <1>4. Trees(g) = Trees(forest)
    BY <1>3 DEF Trees
  <1>5. ASSUME NEW tree \in Trees(forest), NEW level \in 0..(depth - 1)
        PROVE  LeftSibling(g.frontier[tree], level) = LeftSibling(forest.frontier[tree], level)
    <2>1. g.frontier[tree] = KeptBelow(forest.frontier[tree], depth)
      BY <1>1, <1>3 DEF ImportedFrontiers
    <2> QED
      BY <2>1 DEF LeftSibling, Get, KeptBelow
  <1> DEFINE SiblingsOf(f) == [tree \in Trees(forest) |->
                [level \in 0..(depth - 1) |-> LeftSibling(f.frontier[tree], level)]]
  <1>6. SiblingsOf(g) = SiblingsOf(forest)
    BY <1>5
  <1> QED
    BY <1>1, <1>4, <1>6 DEF FrontierInForce

(* A restart changes nothing that a later message can see: leaves, counters,  *)
(* markers, root slots and their index are those from before -- the index is  *)
(* not in the export, and the ring is written from slot 0 --, and so is every *)
(* left sibling below the depth in force.                                     *)
THEOREM RestartsAreInvisible == RestartSpec => RestartIsInvisible
  <1>1. RestartInv /\ [RestartNext]_vars => [Invisible]_vars
    <2> SUFFICES ASSUME RestartInv, Restart
                 PROVE  /\ [forest' EXCEPT !.frontier = forest.frontier] = forest
                        /\ FrontierInForce(forest') = FrontierInForce(forest)
                        /\ [registration' EXCEPT !.root = registration.root] = registration
                        /\ GetRegMerkleRoot(registration') = GetRegMerkleRoot(registration)
      BY DEF Invisible
    <2>1. /\ forest' = [forest EXCEPT !.frontier = ImportedFrontiers]
          /\ registration' = ImportRegistration(ExportGenesis)
      BY RestartKeepsState
    <2>2. HasForestFields(forest) /\ Registers(registration) /\ RegRestorable(registration)
      BY DEF RestartInv, LedgerInv, PoolInv, ForestInv, Good, Slotted
    <2>3. [forest' EXCEPT !.frontier = forest.frontier] = forest
      BY <2>1, <2>2 DEF HasForestFields
    <2>4. FrontierInForce(forest') = FrontierInForce(forest)
      BY SameLeftSiblings
    <2>5. /\ [registration' EXCEPT !.root = registration.root] = registration
          /\ GetRegMerkleRoot(registration') = GetRegMerkleRoot(registration)
      BY <2>1, <2>2, RegistrationAlike
    <2> QED
      BY <2>3, <2>4, <2>5
  <1>2. [Invisible]_vars <=>
        [Restart =>
            /\ [forest' EXCEPT !.frontier = forest.frontier] = forest
            /\ FrontierInForce(forest') = FrontierInForce(forest)
            /\ [registration' EXCEPT !.root = registration.root] = registration
            /\ GetRegMerkleRoot(registration') = GetRegMerkleRoot(registration)]_vars
    BY DEF Invisible
  <1> QED
    BY <1>1, <1>2, RestartInit, RestartNextKeepsInv, PTL DEF RestartSpec, RestartIsInvisible

(* The registration tree stays the Merkle tree of the identities, on every   *)
(* chain that a restart starts.                                              *)
THEOREM RegistrationOutlivesRestarts == RestartSpec => []RegistrationIsSound
  <1>1. RestartInv => RegistrationIsSound
    BY DEF RestartInv, LedgerInv, PoolInv, Registers, RegistrationIsSound
  <1> QED
    BY <1>1, RestartInit, RestartNextKeepsInv, PTL DEF RestartSpec

(* Types and coins outlive restarts: what the module account holds is what   *)
(* the unspent notes of the restored forest are worth, and the restored      *)
(* nullifiers are those of notes.                                            *)
THEOREM CoinsOutliveRestarts == RestartSpec => [](TypeOK /\ Solvent /\ OnlyNotesAreSpent)
  <1>1. RestartInv => TypeOK /\ Solvent /\ OnlyNotesAreSpent
    BY CoveredIsSolvent
       DEF RestartInv, LedgerInv, PoolInv, ForestInv, OnlyNotesAreSpent
  <1> QED
    BY <1>1, RestartInit, RestartNextKeepsInv, PTL DEF RestartSpec

(* The data stored for a finished transaction outlives restarts as well: the *)
(* export holds it, and no later transaction finds its key.                  *)
THEOREM AuditorDataOutlivesRestarts == RestartSpec => FinishedDataIsKept
  <1>1. RestartInv /\ [RestartNext]_vars => [OthersKept]_vars
    <2> SUFFICES ASSUME RestartInv, [RestartNext]_vars PROVE [OthersKept]_vars
      OBVIOUS
    <2>1. CASE Restart
      <3>1. auditorData' = auditorData
        BY <2>1, RestartKeepsState
      <3> QED
        BY <3>1 DEF OthersKept
    <2>2. CASE [Next]_vars
      BY <2>2, NextIsAnyStep, DataNext DEF RestartInv, LedgerInv, DataInv
    <2> QED
      BY <2>1, <2>2 DEF RestartNext
  <1>2. [OthersKept]_vars <=>
        [\A hash \in DOMAIN auditorData \ {txHash} :
            hash \in DOMAIN auditorData' /\ auditorData'[hash] = auditorData[hash]]_vars
    BY DEF OthersKept
  <1> QED
    BY <1>1, <1>2, RestartInit, RestartNextKeepsInv, PTL DEF RestartSpec, FinishedDataIsKept

(* A chain that is exported and imported at any moments implements the same  *)
(* ledger: no restart brings a spent note back, forgets one, or lets one be  *)
(* shielded twice.                                                           *)
THEOREM RestartsImplementLedger == RestartSpec => ImplementsLedger
  <1>1. RestartInv /\ RestartInv' /\ [RestartNext]_vars => [Ledger!Next]_(Ledger!vars)
    <2> SUFFICES ASSUME RestartInv, RestartInv', [RestartNext]_vars
                 PROVE  [Ledger!Next]_(Ledger!vars)
      OBVIOUS
    <2>1. CASE Restart
      <3>1. spent' = spent /\ escrow' = escrow /\ forest'.leaf = forest.leaf
        BY <2>1, RestartKeepsState, RestartKeepsInv
      <3>2. Notes' = Notes
        BY <3>1 DEF Notes
      <3>3. UnspentNotes' = UnspentNotes
        BY <3>1, <3>2 DEF UnspentNotes
      <3> QED
        BY <3>1, <3>3 DEF Ledger!vars
    <2>2. CASE [Next]_vars
      BY <2>2, NextIsAnyStep, NextRefines DEF RestartInv
    <2> QED
      BY <2>1, <2>2 DEF RestartNext
  <1> QED
    BY <1>1, RestartInit, RestartNextKeepsInv, InitRefines, PTL
       DEF RestartSpec, ImplementsLedger, Ledger!Spec

-----------------------------------------------------------------------------
(***************************************************************************)
(* Exactly what is lost, and exactly when the import stops.                *)
(***************************************************************************)

(* The registration tree's frontier is stored with the first identity, at   *)
(* every level.                                                             *)
RegFrontierFull(r) ==
    DOMAIN r.frontier = IF r.nextIndex = 0 THEN {} ELSE 0..(RegTreeDepth - 1)

ExportInv == RestartInv /\ RegFrontierFull(registration)

(* The leaf with index 0 is on the left at every level. *)
LEMMA FirstGoesLeft ==
    ASSUME NEW level \in Nat
    PROVE  GoesLeft(0, level)
  <1>1. Pos(0, level) = 0
    <2>1. PICK p, w : p = Pos(0, level) /\ w = Width[level]
      OBVIOUS
    <2>2. p \in Nat /\ p * w <= 0 /\ w \in Nat \ {0}
      BY <2>1, PosFacts, WidthEquation
    <2> QED
      BY <2>1, <2>2
  <1> QED
    BY <1>1, PosFacts

(* The first identity's climb writes the whole frontier, later ones no more. *)
LEMMA InsertRegFull ==
    ASSUME NEW r, r.nextIndex \in Nat, RegFrontierFull(r), NEW identity,
           NEW s, s = InsertRegCommitment(r, identity)
    PROVE  RegFrontierFull(s)
  <1>1. PICK index, frontier : index = r.nextIndex /\ frontier = r.frontier
    OBVIOUS
  <1>2. /\ s.nextIndex = index + 1
        /\ s.frontier = NewFrontier(frontier, identity, index, RegTreeDepth)
    BY <1>1 DEF InsertRegCommitment
  <1>3. s.nextIndex # 0
    BY <1>1, <1>2
  <1>4. DOMAIN s.frontier
          = DOMAIN frontier \cup {level \in 0..(RegTreeDepth - 1) : GoesLeft(index, level)}
    BY <1>2 DEF NewFrontier
  <1>5. CASE index = 0
    <2>1. \A level \in 0..(RegTreeDepth - 1) : GoesLeft(index, level)
      BY <1>5, FirstGoesLeft, RegDepthAssumption
    <2>2. DOMAIN frontier = {}
      BY <1>1, <1>5 DEF RegFrontierFull
    <2> QED
      BY <1>3, <1>4, <2>1, <2>2 DEF RegFrontierFull
  <1>6. CASE index # 0
    <2>1. DOMAIN frontier = 0..(RegTreeDepth - 1)
      BY <1>1, <1>6 DEF RegFrontierFull
    <2> QED
      BY <1>3, <1>4, <2>1 DEF RegFrontierFull
  <1> QED
    BY <1>5, <1>6

(* Only a registration writes the registration tree's frontier. *)
LEMMA PoolStepKeepsFull ==
    ASSUME RestartInv, RegFrontierFull(registration), [AnyStep]_vars
    PROVE  RegFrontierFull(registration')
  <1>1. registration.nextIndex \in Nat
    BY DEF RestartInv, LedgerInv, PoolInv, Registers, RegistrationTypeOK
  <1>2. CASE registration' = registration
    BY <1>2
  <1>3. ASSUME NEW identity \in Identity, NEW chainId \in ChainIds, NEW key \in Keys,
               NEW data \in AttachData, Register(identity, chainId, key, data)
        PROVE  RegFrontierFull(registration')
    <2>1. registration' = InsertRegCommitment(registration, identity)
      BY <1>3 DEF Register
    <2> QED
      BY <1>1, <2>1, InsertRegFull
  <1>4. BeginTx => registration' = registration
    BY DEF BeginTx, chainVars
  <1>5. \A note, amount, denom, key, data :
           Deposit(note, amount, denom, key, data) => registration' = registration
    BY DEF Deposit
  <1>6. AnyTransact => registration' = registration
    BY DEF AnyTransact, Transact
  <1>7. (\E p \in ParamChoices : UpdateParams(p)) => registration' = registration
    BY DEF UpdateParams
  <1>8. (\E circuit \in Circuit : SetVerificationKey(circuit)) => registration' = registration
    BY DEF SetVerificationKey
  <1>9. UNCHANGED vars => registration' = registration
    BY DEF vars
  <1> QED
    BY <1>2, <1>3, <1>4, <1>5, <1>6, <1>7, <1>8, <1>9 DEF AnyStep

(* Steps and restarts, in any order. *)
LEMMA ExportNext == ExportInv /\ [RestartNext]_vars => ExportInv'
  <1> SUFFICES ASSUME ExportInv, [RestartNext]_vars PROVE ExportInv'
    OBVIOUS
  <1>1. RestartInv'
    BY RestartNextKeepsInv DEF ExportInv
  <1>2. CASE Restart
    <2>1. /\ registration'.nextIndex = registration.nextIndex
          /\ registration'.frontier = registration.frontier
      BY <1>2, RestartKeepsState, RegistrationAlike
         DEF ExportInv, RestartInv, LedgerInv, PoolInv
    <2> QED
      BY <1>1, <2>1 DEF ExportInv, RegFrontierFull
  <1>3. CASE [Next]_vars
    BY <1>1, <1>3, NextIsAnyStep, PoolStepKeepsFull DEF ExportInv
  <1> QED
    BY <1>2, <1>3 DEF RestartNext

(* Nobody has registered yet. *)
LEMMA ExportInit == Init => ExportInv
  <1>1. Init => RegFrontierFull(registration)
    <2>1. EmptyRegistration.nextIndex = 0 /\ DOMAIN EmptyRegistration.frontier = {}
      BY DEF EmptyRegistration
    <2> QED
      BY <2>1 DEF Init, RegFrontierFull
  <1> QED
    BY <1>1, RestartInit DEF ExportInv

(* The import gives the forest back if and only if no frontier level is left *)
(* out, and those are the ones at and above the depth in force.              *)
LEMMA LostLevels ==
    ASSUME RestartInv
    PROVE  LossIsAboveDepth
  <1>1. Good(forest) /\ Exact(forest) /\ Restorable(forest) /\ HasForestFields(forest)
    BY DEF RestartInv, LedgerInv, PoolInv, ForestInv, Good, Slotted
  <1>2. PICK g : g = ImportForest(ExportGenesis)
    OBVIOUS
  <1>3. g = [forest EXCEPT !.frontier = ImportedFrontiers]
    BY <1>1, <1>2, ForestComesBack
  <1>4. g = forest <=> ImportedFrontiers = forest.frontier
    BY <1>1, <1>3 DEF HasForestFields
  <1>5. /\ DOMAIN forest.frontier = Trees(forest) /\ IsMap(forest.frontier)
        /\ \A tree \in Trees(forest) : IsMap(forest.frontier[tree])
    BY <1>1 DEF Good, ForestShapeOK, CountersOK, Restorable, MapsOK
  <1>6. ASSUME NEW tree \in Trees(forest)
        PROVE  KeptBelow(forest.frontier[tree], params.treeDepth) = forest.frontier[tree]
                 <=> DOMAIN forest.frontier[tree] \subseteq 0..(params.treeDepth - 1)
    <2>1. PICK frontier, kept, depth : /\ frontier = forest.frontier[tree]
                                       /\ depth = params.treeDepth
                                       /\ kept = KeptBelow(frontier, depth)
      OBVIOUS
    <2>2. kept = [level \in {l \in 0..(depth - 1) : l \in DOMAIN frontier} |-> frontier[level]]
      BY <2>1 DEF KeptBelow
    <2>3. frontier = [level \in DOMAIN frontier |-> frontier[level]]
      BY <1>5, <2>1 DEF IsMap
    <2>4. CASE DOMAIN frontier \subseteq 0..(depth - 1)
      <3>1. {l \in 0..(depth - 1) : l \in DOMAIN frontier} = DOMAIN frontier
        BY <2>4
      <3> QED
        BY <2>1, <2>2, <2>3, <2>4, <3>1
    <2>5. CASE kept = frontier
      <3>1. DOMAIN kept \subseteq 0..(depth - 1)
        BY <2>2
      <3> QED
        BY <2>1, <2>5, <3>1
    <2> QED
      BY <2>1, <2>4, <2>5
  <1>7. ImportedFrontiers = forest.frontier
          <=> \A tree \in Trees(forest) :
                 KeptBelow(forest.frontier[tree], params.treeDepth) = forest.frontier[tree]
    <2>1. ASSUME \A tree \in Trees(forest) :
                    KeptBelow(forest.frontier[tree], params.treeDepth) = forest.frontier[tree]
          PROVE  ImportedFrontiers = forest.frontier
      BY <1>5, <2>1 DEF ImportedFrontiers, IsMap
    <2>2. ASSUME ImportedFrontiers = forest.frontier, NEW tree \in Trees(forest)
          PROVE  KeptBelow(forest.frontier[tree], params.treeDepth) = forest.frontier[tree]
      <3>1. ImportedFrontiers[tree] = KeptBelow(forest.frontier[tree], params.treeDepth)
        BY DEF ImportedFrontiers
      <3> QED
        BY <2>2, <3>1
    <2> QED
      BY <2>1, <2>2
  <1> QED
    BY <1>2, <1>4, <1>6, <1>7 DEF ExportIsComplete, LossIsAboveDepth, LevelsOf

(* Exactly what an export leaves out, in every reachable state: the frontier *)
(* levels that trees keep from a time when the depth was greater.  While     *)
(* there are none the import gives back the forest as it was.                *)
THEOREM ExportLosesLevelsAboveDepth == RestartSpec => []LossIsAboveDepth
  BY LostLevels, RestartInit, RestartNextKeepsInv, PTL DEF RestartSpec

(* A nil level is in the export exactly if the frontier lacks a level. *)
LEMMA NilLevels ==
    ASSUME NEW frontier, NoNil(frontier), NEW depth
    PROVE  NoNil(ExportFrontier(frontier, depth)) <=> 0..(depth - 1) \subseteq DOMAIN frontier
  <1>1. PICK levels : levels = ExportFrontier(frontier, depth)
    OBVIOUS
  <1>2. levels = [level \in 0..(depth - 1) |-> Get(frontier, level, Nil)]
    BY <1>1 DEF ExportFrontier
  <1>3. \A level \in 0..(depth - 1) : levels[level] # Nil <=> level \in DOMAIN frontier
    <2> SUFFICES ASSUME NEW level \in 0..(depth - 1)
                 PROVE  levels[level] # Nil <=> level \in DOMAIN frontier
      OBVIOUS
    <2>1. levels[level] = IF level \in DOMAIN frontier THEN frontier[level] ELSE Nil
      BY <1>2 DEF Get
    <2> QED
      BY <2>1 DEF NoNil
  <1>4. DOMAIN levels = 0..(depth - 1)
    BY <1>2
  <1> QED
    BY <1>1, <1>3, <1>4 DEF NoNil

(* The registration's levels are all there with the first identity, and a   *)
(* tree's are those of its frontier.                                        *)
LEMMA MissingLevels ==
    ASSUME ExportInv
    PROVE  NilsAreGaps
  <1>1. PICK gs, count, depth : /\ gs = ExportGenesis /\ count = forest.treeCount
                                /\ depth = params.treeDepth
    OBVIOUS
  <1>2. /\ gs.regFrontier = ExportFrontier(registration.frontier, RegTreeDepth)
        /\ gs.trees = [i \in 1..count |-> TreeState(i - 1)]
    BY <1>1 DEF ExportGenesis
  <1>3. /\ count \in Nat /\ DOMAIN forest.frontier = Trees(forest)
        /\ \A tree \in Trees(forest) : NoNil(forest.frontier[tree])
        /\ Trees(forest) = 0..(count - 1)
    BY <1>1 DEF ExportInv, RestartInv, LedgerInv, PoolInv, ForestInv, Good,
                ForestShapeOK, CountersOK, Restorable, MapsOK, Trees
  <1>4. NoNil(gs.regFrontier) <=> registration.nextIndex > 0
    <2>1. NoNil(registration.frontier) /\ registration.nextIndex \in Nat
      BY DEF ExportInv, RestartInv, LedgerInv, PoolInv, Registers, RegistrationTypeOK,
             RegRestorable
    <2>2. NoNil(gs.regFrontier) <=> 0..(RegTreeDepth - 1) \subseteq DOMAIN registration.frontier
      BY <1>2, <2>1, NilLevels
    <2>3. 0 \in 0..(RegTreeDepth - 1)
      BY RegDepthAssumption
    <2>4. DOMAIN registration.frontier
            = IF registration.nextIndex = 0 THEN {} ELSE 0..(RegTreeDepth - 1)
      BY DEF ExportInv, RegFrontierFull
    <2>5. CASE registration.nextIndex = 0
      <3>1. 0 \notin DOMAIN registration.frontier
        BY <2>4, <2>5
      <3> QED
        BY <2>2, <2>3, <2>5, <3>1
    <2>6. CASE registration.nextIndex # 0
      BY <2>1, <2>2, <2>4, <2>6
    <2> QED
      BY <2>5, <2>6
  <1>5. ASSUME NEW tree \in Trees(forest)
        PROVE  NoNil(TreeState(tree).frontier)
                  <=> 0..(depth - 1) \subseteq DOMAIN forest.frontier[tree]
    <2>1. Frontier(forest, tree) = forest.frontier[tree]
      BY <1>3 DEF Frontier, Get
    <2>2. TreeState(tree).frontier = ExportFrontier(forest.frontier[tree], depth)
      BY <1>1, <2>1 DEF TreeState
    <2> QED
      BY <1>3, <2>2, NilLevels
  <1>6. (\A i \in DOMAIN gs.trees : NoNil(gs.trees[i].frontier))
          <=> \A tree \in Trees(forest) : NoNil(TreeState(tree).frontier)
    <2>1. DOMAIN gs.trees = 1..count /\ \A i \in 1..count : gs.trees[i] = TreeState(i - 1)
      BY <1>2
    <2>2. \A i \in 1..count : i - 1 \in Trees(forest)
      BY <1>3
    <2>3. ASSUME NEW tree \in Trees(forest)
          PROVE  tree + 1 \in 1..count /\ gs.trees[tree + 1] = TreeState(tree)
      <3>1. tree + 1 \in 1..count /\ (tree + 1) - 1 = tree
        BY <1>3
      <3>2. gs.trees[tree + 1] = TreeState((tree + 1) - 1)
        BY <2>1, <3>1
      <3> QED
        BY <3>1, <3>2
    <2> QED
      BY <2>1, <2>2, <2>3
  <1> QED
    BY <1>1, <1>4, <1>5, <1>6 DEF NilsAreGaps, NoLevelMissing, LevelsOf

(* Exactly when a level of an export is nil, in every reachable state: while *)
(* nobody has registered, or while a tree of notes lacks a frontier level    *)
(* below the depth in force.  A store that refuses nil starts a new chain    *)
(* from the other exports, and from no export with a nil level.              *)
THEOREM ExportMissesLevels == RestartSpec => []NilsAreGaps
  BY MissingLevels, ExportInit, ExportNext, PTL DEF RestartSpec
-----------------------------------------------------------------------------
(***************************************************************************)
(* While governance leaves the depth of the note trees alone.              *)
(***************************************************************************)

(* Every frontier has the levels below a depth, and no other. *)
FrontiersFull(f, depth) ==
    \A tree \in DOMAIN f.frontier : DOMAIN f.frontier[tree] = 0..(depth - 1)

(* An insertion at that depth writes no level above it. *)
LEMMA InsertNoteFull ==
    ASSUME NEW f, Good(f), NEW depth \in Nat, FrontiersFull(f, depth), NEW commitment,
           NEW g, g = InsertNote(f, commitment, depth)
    PROVE  FrontiersFull(g, depth)
  <1>1. PICK r : r = ForestWithRoom(f, depth)
    OBVIOUS
  <1>2. FrontiersFull(r, depth)
    <2>1. CASE r = f
      BY <2>1
    <2>2. CASE r = CreateTree(f, depth)
      <3>1. r.frontier = Put(f.frontier, f.treeCount, EmptyFrontier(depth))
        BY <2>2, CreateTreeFacts DEF Good
      <3> QED
        BY <3>1 DEF FrontiersFull, Put, EmptyFrontier
    <2> QED
      BY <1>1, <2>1, <2>2, RoomCases
  <1>3. /\ r.activeTreeId \in DOMAIN r.frontier
        /\ NoteInserted(r, g, commitment, depth)
    <2>1. Good(r) /\ r.activeTreeId \in Trees(r)
      BY <1>1, ForestWithRoomGood
    <2> QED
      BY <1>1, <2>1, InsertNoteWrites DEF Good, ForestShapeOK, CountersOK
  <1>4. PICK tree, index, old, new :
            /\ tree = r.activeTreeId /\ index = r.nextIndex[tree]
            /\ old = r.frontier[tree] /\ new = NewFrontier(r.frontier[tree], commitment, index, depth)
    OBVIOUS
  <1>5. g.frontier = Put(r.frontier, tree, new) /\ tree \in DOMAIN r.frontier
    BY <1>3, <1>4 DEF NoteInserted, Frontier, Get
  <1>6. DOMAIN old = 0..(depth - 1)
    BY <1>2, <1>4, <1>5 DEF FrontiersFull
  <1>7. DOMAIN new = 0..(depth - 1)
    BY <1>4, <1>6 DEF NewFrontier
  <1> QED
    BY <1>2, <1>5, <1>7 DEF FrontiersFull, Put

(* The inductive invariant of this part. *)
SteadyInv ==
    /\ ExportInv
    /\ params.treeDepth = GenesisParams.treeDepth
    /\ FrontiersFull(forest, params.treeDepth)

(* An output of a transact is inserted at the depth in force. *)
LEMMA InsertOutputFull ==
    ASSUME NEW f, Good(f), params.treeDepth \in Nat, FrontiersFull(f, params.treeDepth),
           NEW note, NEW g, g = InsertOutput(f, note)
    PROVE  FrontiersFull(g, params.treeDepth)
  BY InsertNoteFull DEF InsertOutput

(* No step of the pool writes another level, or moves the depth. *)
LEMMA SteadyPoolStep ==
    ASSUME \A p \in ParamChoices : ValidParams(p) => p.treeDepth = GenesisParams.treeDepth,
           SteadyInv, [AnyStep]_vars
    PROVE  /\ params'.treeDepth = params.treeDepth
           /\ FrontiersFull(forest', params.treeDepth)
  <1>1. /\ Good(forest) /\ ForestInv(forest) /\ params.treeDepth \in Nat
        /\ FrontiersFull(forest, params.treeDepth)
    BY DEF SteadyInv, ExportInv, RestartInv, LedgerInv, PoolInv, ForestInv, TypeOK, ParamsType
  <1> DEFINE Kept == /\ params'.treeDepth = params.treeDepth
                     /\ FrontiersFull(forest', params.treeDepth)
  <1>2. CASE UNCHANGED <<forest, params>>
    BY <1>1, <1>2
  <1>3. CASE BeginTx
    BY <1>2, <1>3 DEF BeginTx, chainVars
  <1>4. ASSUME NEW identity \in Identity, NEW chainId \in ChainIds, NEW key \in Keys,
               NEW data \in AttachData, Register(identity, chainId, key, data)
        PROVE  Kept
    BY <1>2, <1>4 DEF Register
  <1>5. ASSUME NEW note \in Commitment, NEW denom \in Denom, NEW key \in Keys,
               NEW data \in AttachData, NEW amount \in 1..(FieldModulus - 1),
               Deposit(note, amount, denom, key, data)
        PROVE  Kept
    <2>1. forest' = InsertNote(forest, note, params.treeDepth) /\ params' = params
      BY <1>5 DEF Deposit
    <2> QED
      BY <1>1, <2>1, InsertNoteFull
  <1>6. CASE AnyTransact
    <2>1. PICK msg : msg.outputs \in NotePair /\ Transact(msg)
      BY <1>6 DEF AnyTransact
    <2>2. PICK middle : middle = InsertOutput(forest, msg.outputs[1])
      OBVIOUS
    <2>3. msg.outputs[1] \in Commitment \cup {Zero}
      BY <2>1 DEF NotePair
    <2>4. CanInsertOutput(forest, msg.outputs[1])
      BY <2>1 DEF Transact, CanTransact, OutputsAccepted
    <2>5. Good(middle) /\ FrontiersFull(middle, params.treeDepth)
      BY <1>1, <2>2, <2>3, <2>4, InsertOutputGood, InsertOutputFull DEF ForestInv
    <2>6. forest' = InsertOutput(middle, msg.outputs[2]) /\ params' = params
      BY <2>1, <2>2 DEF Transact, AfterFirstOutput
    <2> QED
      BY <1>1, <2>5, <2>6, InsertOutputFull
  <1>7. ASSUME NEW p \in ParamChoices, UpdateParams(p) PROVE Kept
    BY <1>1, <1>7 DEF UpdateParams, SteadyInv
  <1>8. ASSUME NEW circuit \in Circuit, SetVerificationKey(circuit) PROVE Kept
    BY <1>2, <1>8 DEF SetVerificationKey
  <1>9. CASE UNCHANGED vars
    BY <1>2, <1>9 DEF vars
  <1> QED
    BY <1>3, <1>4, <1>5, <1>6, <1>7, <1>8, <1>9 DEF AnyStep

(* Nor does a restart: there is nothing above the depth to lose. *)
LEMMA SteadyNext ==
    ASSUME \A p \in ParamChoices : ValidParams(p) => p.treeDepth = GenesisParams.treeDepth
    PROVE  SteadyInv /\ [RestartNext]_vars => SteadyInv'
  <1> SUFFICES ASSUME SteadyInv, [RestartNext]_vars PROVE SteadyInv'
    OBVIOUS
  <1>1. ExportInv'
    BY ExportNext DEF SteadyInv
  <1>2. CASE Restart
    <2>1. forest' = forest
      <3>1. /\ DOMAIN forest.frontier = Trees(forest)
            /\ FrontiersFull(forest, params.treeDepth)
        BY DEF SteadyInv, ExportInv, RestartInv, LedgerInv, PoolInv, ForestInv, Good,
               ForestShapeOK, CountersOK
      <3>2. \A tree \in Trees(forest) : LevelsOf(tree) \subseteq 0..(params.treeDepth - 1)
        BY <3>1 DEF FrontiersFull, LevelsOf
      <3>3. ExportIsComplete
        BY <3>2, LostLevels DEF SteadyInv, ExportInv, LossIsAboveDepth
      <3> QED
        BY <1>2, <3>3 DEF Restart, ExportIsComplete
    <2>2. params' = params
      BY <1>2, RestartKeepsState DEF SteadyInv, ExportInv
    <2> QED
      BY <1>1, <2>1, <2>2 DEF SteadyInv
  <1>3. CASE [Next]_vars
    <2>1. params'.treeDepth = params.treeDepth /\ FrontiersFull(forest', params.treeDepth)
      BY <1>3, NextIsAnyStep, SteadyPoolStep
    <2> QED
      BY <1>1, <2>1 DEF SteadyInv
  <1> QED
    BY <1>2, <1>3 DEF RestartNext

(* While governance leaves the depth of the note trees at the genesis one,   *)
(* every export is complete, and from the first registration on there is no  *)
(* nil in it: both things that go wrong with exports need a proposal, or     *)
(* that nobody has registered.                                               *)
THEOREM SteadyExports ==
    ASSUME \A p \in ParamChoices : ValidParams(p) => p.treeDepth = GenesisParams.treeDepth
    PROVE  RestartSpec => []( /\ ExportIsComplete
                              /\ Registered # {} => NoLevelMissing(ExportGenesis))
  <1>1. SteadyInv => /\ ExportIsComplete
                     /\ Registered # {} => NoLevelMissing(ExportGenesis)
    <2> SUFFICES ASSUME SteadyInv
                 PROVE  /\ ExportIsComplete
                        /\ Registered # {} => NoLevelMissing(ExportGenesis)
      OBVIOUS
    <2>1. /\ DOMAIN forest.frontier = Trees(forest)
          /\ FrontiersFull(forest, params.treeDepth)
      BY DEF SteadyInv, ExportInv, RestartInv, LedgerInv, PoolInv, ForestInv, Good,
             ForestShapeOK, CountersOK
    <2>2. \A tree \in Trees(forest) : LevelsOf(tree) = 0..(params.treeDepth - 1)
      BY <2>1 DEF FrontiersFull, LevelsOf
    <2>3. ExportIsComplete
      BY <2>2, LostLevels DEF SteadyInv, ExportInv, LossIsAboveDepth
    <2>4. Registered # {} => registration.nextIndex > 0
      BY DEF SteadyInv, ExportInv, RestartInv, LedgerInv, PoolInv, Registers,
             RegistrationTypeOK, Registered
    <2>5. NilsAreGaps
      BY MissingLevels DEF SteadyInv
    <2> QED
      BY <2>2, <2>3, <2>4, <2>5 DEF NilsAreGaps
  <1>2. Init => SteadyInv
    <2> SUFFICES ASSUME Init PROVE SteadyInv
      OBVIOUS
    <2>1. params = GenesisParams /\ forest = EmptyForest
      BY DEF Init
    <2>2. DOMAIN forest.frontier = {}
      BY <2>1 DEF EmptyForest
    <2> QED
      BY <2>1, <2>2, ExportInit DEF SteadyInv, FrontiersFull
  <1>3. SteadyInv /\ [RestartNext]_vars => SteadyInv'
    BY SteadyNext
  <1> QED
    BY <1>1, <1>2, <1>3, PTL DEF RestartSpec

(* A restart leaves every tree right: its leaves, its roots and the siblings *)
(* that the next leaf's path hashes with are those from before.              *)
LEMMA RestartKeepsRight ==
    ASSUME RestartInv, DepthInv, Restart
    PROVE  DepthInv'
  <1>1. PICK f, g, depth : f = forest /\ g = forest' /\ depth = CircuitDepth
    OBVIOUS
  <1>2. /\ g.leaf = f.leaf /\ g.treeCount = f.treeCount
        /\ g.nextIndex = f.nextIndex /\ g.rootSlot = f.rootSlot
        /\ LedgerInv'
    BY <1>1, RestartKeepsInv DEF RestartInv
  <1>3. params' = params /\ params.treeDepth = depth /\ TreesRight(f, depth)
    BY <1>1, RestartKeepsState DEF DepthInv
  <1>4. Trees(g) = Trees(f)
    BY <1>2 DEF Trees
  <1>5. \A tree \in Trees(f) : f.nextIndex[tree] \in Nat
    BY <1>1 DEF DepthInv, LedgerInv, PoolInv, ForestInv, Good, ForestShapeOK, CountersOK
  <1>6. ASSUME NEW tree \in Trees(f), NEW level \in 0..(depth - 1)
        PROVE  LeftSibling(g.frontier[tree], level) = LeftSibling(f.frontier[tree], level)
    <2>1. FrontierInForce(g) = FrontierInForce(f)
      BY <1>1, SameLeftSiblings
    <2>2. FrontierInForce(g)[tree][level] = LeftSibling(g.frontier[tree], level)
      BY <1>3, <1>4 DEF FrontierInForce
    <2>3. FrontierInForce(f)[tree][level] = LeftSibling(f.frontier[tree], level)
      BY <1>3 DEF FrontierInForce
    <2> QED
      BY <2>1, <2>2, <2>3
  <1>7. \A tree, n : First(g, tree, n) = First(f, tree, n)
    BY <1>2 DEF First
  <1>8. ASSUME NEW tree \in Trees(f) PROVE TreeRight(g, tree, depth)
    <2>1. TreeRight(f, tree, depth)
      BY <1>3 DEF TreesRight
    <2>2. FrontierOK(g.frontier[tree], First(f, tree, f.nextIndex[tree]), depth)
      BY <1>6, <2>1 DEF TreeRight, FrontierOK
    <2> QED
      BY <1>2, <1>7, <2>1, <2>2 DEF TreeRight
  <1>9. TreesRight(g, depth)
    BY <1>4, <1>8 DEF TreesRight
  <1> QED
    BY <1>1, <1>2, <1>3, <1>9 DEF DepthInv

(* Whoever owns an unspent note can still turn it into coins on a chain that *)
(* was started from an export, and on one started from that chain's, as long *)
(* as governance leaves the depth of the note trees at the circuit's.        *)
THEOREM UnspentOutlivesRestarts ==
    ASSUME GenesisParams.treeDepth = CircuitDepth,
           \A p \in ParamChoices : ValidParams(p) => p.treeDepth = CircuitDepth
    PROVE  RestartSpec => []UnspentIsWithdrawable
  <1>1. DepthInv => UnspentIsWithdrawable
    <2> SUFFICES ASSUME DepthInv, NEW key \in DOMAIN forest.leaf,
                        forest.leaf[key] \in UnspentNotes,
                        WithdrawalsOn(NoteDenom[forest.leaf[key]])
                 PROVE  CanTransact(FullWithdrawal(forest.leaf[key], key[1]))
      BY DEF UnspentIsWithdrawable
    <2>1. NullifierOf(forest.leaf[key]) \notin spent
      BY DEF UnspentNotes
    <2> QED
      BY <2>1, WithdrawalPasses
  <1>2. Init => RestartInv /\ DepthInv
    BY RestartInit, DepthInit
  <1>3. RestartInv /\ DepthInv /\ [RestartNext]_vars => RestartInv' /\ DepthInv'
    <2> SUFFICES ASSUME RestartInv, DepthInv, [RestartNext]_vars
                 PROVE  RestartInv' /\ DepthInv'
      OBVIOUS
    <2>1. RestartInv'
      BY RestartNextKeepsInv
    <2>2. CASE Restart
      BY <2>1, <2>2, RestartKeepsRight
    <2>3. CASE [Next]_vars
      BY <2>1, <2>3, NextIsAnyStep, DepthNext
    <2> QED
      BY <2>2, <2>3 DEF RestartNext
  <1> QED
    BY <1>1, <1>2, <1>3, PTL DEF RestartSpec
=============================================================================
