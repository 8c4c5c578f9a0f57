----------------------------- MODULE WireProofs -----------------------------
(***************************************************************************)
(* The message server over bytes and texts.  For every set of encodings    *)
(* and every message:                                                      *)
(*   - the store, read as field elements, is the store that NixPool's      *)
(*     operators build, and no element gets a second leaf;                 *)
(*   - where ValidateBasic runs in front of the handlers, each step is one *)
(*     of NixPool;                                                         *)
(*   - where it does not, value still moves as PoolLedger allows.          *)
(***************************************************************************)
EXTENDS WirePool, NixPoolProofs

-----------------------------------------------------------------------------
(***************************************************************************)
(* Keys made of field elements.                                            *)
(***************************************************************************)

(* Keys in the canonical form, one per element. *)
Canonical(keys) == \A key \in keys : key = FieldBytes(Element(key))

(* Written out, an element is read back. *)
LEMMA ReadBack == \A e : Element(FieldBytes(e)) = e
  BY DEF Element, FieldBytes

(* A canonical key is there exactly if its element is. *)
LEMMA KeysAreElements ==
    ASSUME NEW keys, Canonical(keys), NEW e
    PROVE  FieldBytes(e) \in keys <=> e \in Elements(keys)
  <1>1. Element(FieldBytes(e)) = e
    BY ReadBack
  <1> QED
    BY <1>1 DEF Canonical, Elements

(* One more key, one more element. *)
LEMMA OneMoreKey ==
    ASSUME NEW keys, Canonical(keys), NEW e
    PROVE  /\ Canonical(keys \cup {FieldBytes(e)})
           /\ Elements(keys \cup {FieldBytes(e)}) = Elements(keys) \cup {e}
  <1>1. Element(FieldBytes(e)) = e
    BY ReadBack
  <1> QED
    BY <1>1 DEF Canonical, Elements

(* One more leaf, read as an element. *)
LEMMA OneMoreLeaf ==
    ASSUME NEW leaf, NEW key, NEW b
    PROVE  ElementsOf(Put(leaf, key, b)) = Put(ElementsOf(leaf), key, Element(b))
  BY DEF ElementsOf, Put

-----------------------------------------------------------------------------
(***************************************************************************)
(* The forest with elements for bytes and keys: no operator but the        *)
(* duplicate check reads what is in a leaf.                                *)
(***************************************************************************)

ForestImage(f) == [f EXCEPT !.leaf = ElementsOf(@), !.used = Elements(@)]

(* Its fields are the forest's, or made of them. *)
LEMMA ImageFields ==
    ASSUME NEW f, HasForestFields(f), NEW g, g = ForestImage(f)
    PROVE  /\ HasForestFields(g)
           /\ g.treeCount = f.treeCount /\ g.activeTreeId = f.activeTreeId
           /\ g.nextIndex = f.nextIndex /\ g.frontier = f.frontier
           /\ g.rootSlot = f.rootSlot /\ g.rootIndex = f.rootIndex
           /\ g.leaf = ElementsOf(f.leaf) /\ g.used = Elements(f.used)
  BY DEF ForestImage, HasForestFields

(* What is alike in every field is the image. *)
LEMMA ImageIs ==
    ASSUME NEW f, HasForestFields(f), NEW g, HasForestFields(g),
           g.treeCount = f.treeCount, g.activeTreeId = f.activeTreeId,
           g.nextIndex = f.nextIndex, g.frontier = f.frontier,
           g.rootSlot = f.rootSlot, g.rootIndex = f.rootIndex,
           g.leaf = ElementsOf(f.leaf), g.used = Elements(f.used)
    PROVE  g = ForestImage(f)
  <1>1. PICK h : h = ForestImage(f)
    OBVIOUS
  <1>2. /\ HasForestFields(h)
        /\ h.treeCount = f.treeCount /\ h.activeTreeId = f.activeTreeId
        /\ h.nextIndex = f.nextIndex /\ h.frontier = f.frontier
        /\ h.rootSlot = f.rootSlot /\ h.rootIndex = f.rootIndex
        /\ h.leaf = ElementsOf(f.leaf) /\ h.used = Elements(f.used)
    BY <1>1, ImageFields
  <1>3. g = h
    BY <1>2 DEF HasForestFields
  <1> QED
    BY <1>1, <1>3

(* An indexed write. *)
LEMMA SetRootImage ==
    ASSUME NEW f, HasForestFields(f), NEW key, NEW root,
           NEW g, g = SetRootIndexed(f, key, root)
    PROVE  /\ HasForestFields(g) /\ g.leaf = f.leaf /\ g.used = f.used
           /\ SetRootIndexed(ForestImage(f), key, root) = ForestImage(g)
  <1>1. PICK i : i = ForestImage(f)
    OBVIOUS
  <1>2. /\ HasForestFields(i)
        /\ i.treeCount = f.treeCount /\ i.activeTreeId = f.activeTreeId
        /\ i.nextIndex = f.nextIndex /\ i.frontier = f.frontier
        /\ i.rootSlot = f.rootSlot /\ i.rootIndex = f.rootIndex
        /\ i.leaf = ElementsOf(f.leaf) /\ i.used = Elements(f.used)
    BY <1>1, ImageFields
  <1>3. PICK slots, index : /\ slots = Put(f.rootSlot, key, root)
                            /\ index = IndexAfterWrite(f.rootSlot, f.rootIndex, key, root)
    OBVIOUS
  <1>4. CASE key \in DOMAIN f.rootSlot /\ f.rootSlot[key] = root
    <2>1. g = f /\ SetRootIndexed(i, key, root) = i
      BY <1>2, <1>4 DEF SetRootIndexed
    <2> QED
      BY <1>1, <2>1
  <1>5. CASE ~ (key \in DOMAIN f.rootSlot /\ f.rootSlot[key] = root)
    <2>1. PICK h : h = SetRootIndexed(i, key, root)
      OBVIOUS
    <2>2. /\ g = [f EXCEPT !.rootSlot = slots, !.rootIndex = index]
          /\ h = [i EXCEPT !.rootSlot = slots, !.rootIndex = index]
      BY <1>2, <1>3, <1>5, <2>1 DEF SetRootIndexed
    <2>3. /\ HasForestFields(g) /\ g.leaf = f.leaf /\ g.used = f.used
          /\ g.treeCount = f.treeCount /\ g.activeTreeId = f.activeTreeId
          /\ g.nextIndex = f.nextIndex /\ g.frontier = f.frontier
          /\ g.rootSlot = slots /\ g.rootIndex = index
      BY <2>2 DEF HasForestFields
    <2>4. /\ HasForestFields(h) /\ h.leaf = i.leaf /\ h.used = i.used
          /\ h.treeCount = i.treeCount /\ h.activeTreeId = i.activeTreeId
          /\ h.nextIndex = i.nextIndex /\ h.frontier = i.frontier
          /\ h.rootSlot = slots /\ h.rootIndex = index
      BY <1>2, <2>2 DEF HasForestFields
    <2>5. h = ForestImage(g)
      BY <1>2, <2>3, <2>4, ImageIs
    <2> QED
      BY <1>1, <2>1, <2>3, <2>5
  <1> QED
    BY <1>4, <1>5

(* A new tree. *)
LEMMA CreateTreeImage ==
    ASSUME NEW f, HasForestFields(f), NEW depth, NEW g, g = CreateTree(f, depth)
    PROVE  /\ HasForestFields(g) /\ g.leaf = f.leaf /\ g.used = f.used
           /\ CreateTree(ForestImage(f), depth) = ForestImage(g)
  <1>1. PICK i : i = ForestImage(f)
    OBVIOUS
  <1>2. PICK tree : tree = f.treeCount
    OBVIOUS
  <1>3. HasForestFields(i) /\ i.treeCount = tree /\ i.frontier = f.frontier
        /\ i.nextIndex = f.nextIndex
    BY <1>1, <1>2, ImageFields
  <1>4. PICK h, j : /\ h = SetRootIndexed(f, TreeRootKey(tree), ZeroHash[depth])
                    /\ j = SetRootIndexed(i, TreeRootKey(tree), ZeroHash[depth])
    OBVIOUS
  <1>5. HasForestFields(h) /\ h.leaf = f.leaf /\ h.used = f.used /\ j = ForestImage(h)
    BY <1>1, <1>4, SetRootImage
  <1>6. /\ HasForestFields(j)
        /\ j.treeCount = h.treeCount /\ j.activeTreeId = h.activeTreeId
        /\ j.nextIndex = h.nextIndex /\ j.frontier = h.frontier
        /\ j.rootSlot = h.rootSlot /\ j.rootIndex = h.rootIndex
        /\ j.leaf = ElementsOf(h.leaf) /\ j.used = Elements(h.used)
    BY <1>5, ImageFields
  <1>7. PICK nodes, next, count : /\ nodes = Put(f.frontier, tree, EmptyFrontier(depth))
                                  /\ next = Put(f.nextIndex, tree, 0)
                                  /\ count = tree + 1
    OBVIOUS
  <1>8. PICK k : k = CreateTree(i, depth)
    OBVIOUS
  <1>9. /\ g = [h EXCEPT !.frontier = nodes, !.nextIndex = next,
                         !.treeCount = count, !.activeTreeId = tree]
        /\ k = [j EXCEPT !.frontier = nodes, !.nextIndex = next,
                         !.treeCount = count, !.activeTreeId = tree]
    BY <1>2, <1>3, <1>4, <1>7, <1>8 DEF CreateTree, SetTreeRootIndexed, EmptyFrontier
  <1>10. /\ HasForestFields(g) /\ g.leaf = h.leaf /\ g.used = h.used
         /\ g.treeCount = count /\ g.activeTreeId = tree
         /\ g.nextIndex = next /\ g.frontier = nodes
         /\ g.rootSlot = h.rootSlot /\ g.rootIndex = h.rootIndex
    BY <1>5, <1>9 DEF HasForestFields
  <1>11. /\ HasForestFields(k) /\ k.leaf = j.leaf /\ k.used = j.used
         /\ k.treeCount = count /\ k.activeTreeId = tree
         /\ k.nextIndex = next /\ k.frontier = nodes
         /\ k.rootSlot = j.rootSlot /\ k.rootIndex = j.rootIndex
    BY <1>6, <1>9 DEF HasForestFields
  <1>12. k = ForestImage(g)
    BY <1>6, <1>10, <1>11, ImageIs
  <1> QED
    BY <1>1, <1>5, <1>8, <1>10, <1>12

(* Room for a leaf. *)
LEMMA RoomImage ==
    ASSUME NEW f, HasForestFields(f), NEW depth, NEW g, g = ForestWithRoom(f, depth)
    PROVE  /\ HasForestFields(g) /\ g.leaf = f.leaf /\ g.used = f.used
           /\ ForestWithRoom(ForestImage(f), depth) = ForestImage(g)
  <1>1. PICK i, e, j : /\ i = ForestImage(f)
                       /\ e = EnsureTreeExists(f, depth) /\ j = EnsureTreeExists(i, depth)
    OBVIOUS
  <1>2. HasForestFields(e) /\ e.leaf = f.leaf /\ e.used = f.used /\ j = ForestImage(e)
    <2>1. i.treeCount = f.treeCount
      BY <1>1, ImageFields
    <2>2. CASE f.treeCount = 0
      BY <1>1, <2>1, <2>2, CreateTreeImage DEF EnsureTreeExists
    <2>3. CASE f.treeCount # 0
      BY <1>1, <2>1, <2>3 DEF EnsureTreeExists
    <2> QED
      BY <2>2, <2>3
  <1>3. j.activeTreeId = e.activeTreeId /\ j.nextIndex = e.nextIndex
    BY <1>2, ImageFields
  <1>4. TreeFull(j, j.activeTreeId, depth) <=> TreeFull(e, e.activeTreeId, depth)
    BY <1>3 DEF TreeFull, TreeNextIndex
  <1>5. CASE TreeFull(e, e.activeTreeId, depth)
    <2>1. g = CreateTree(e, depth) /\ ForestWithRoom(i, depth) = CreateTree(j, depth)
      BY <1>1, <1>4, <1>5 DEF ForestWithRoom
    <2> QED
      BY <1>1, <1>2, <2>1, CreateTreeImage
  <1>6. CASE ~ TreeFull(e, e.activeTreeId, depth)
    <2>1. g = e /\ ForestWithRoom(i, depth) = j
      BY <1>1, <1>4, <1>6 DEF ForestWithRoom
    <2> QED
      BY <1>1, <1>2, <2>1
  <1> QED
    BY <1>5, <1>6

(* Both root slots of a leaf. *)
LEMMA RecordRootImage ==
    ASSUME NEW f, HasForestFields(f), NEW tree, NEW slot, NEW root,
           NEW g, g = RecordRoot(f, tree, slot, root)
    PROVE  /\ HasForestFields(g) /\ g.leaf = f.leaf /\ g.used = f.used
           /\ RecordRoot(ForestImage(f), tree, slot, root) = ForestImage(g)
  <1>1. PICK h : h = SetRootIndexed(f, TreeRootKey(tree), root)
    OBVIOUS
  <1>2. /\ HasForestFields(h) /\ h.leaf = f.leaf /\ h.used = f.used
        /\ SetRootIndexed(ForestImage(f), TreeRootKey(tree), root) = ForestImage(h)
    BY <1>1, SetRootImage
  <1>3. g = SetRootIndexed(h, RootHistoryKey(tree, slot), root)
    BY <1>1 DEF RecordRoot, SetTreeRootIndexed, SetRootHistoryIndexed
  <1>4. /\ HasForestFields(g) /\ g.leaf = h.leaf /\ g.used = h.used
        /\ SetRootIndexed(ForestImage(h), RootHistoryKey(tree, slot), root) = ForestImage(g)
    BY <1>2, <1>3, SetRootImage
  <1> QED
    BY <1>2, <1>4 DEF RecordRoot, SetTreeRootIndexed, SetRootHistoryIndexed

(* Inserting bytes is inserting their element. *)
LEMMA InsertBytesImage ==
    ASSUME NEW f, HasForestFields(f), Canonical(f.used), NEW b, NEW depth,
           NEW g, g = InsertNoteBytes(f, b, depth)
    PROVE  /\ HasForestFields(g) /\ Canonical(g.used)
           /\ ForestImage(g) = InsertNote(ForestImage(f), Element(b), depth)
  <1>1. PICK i, r, q, e : /\ i = ForestImage(f)
                          /\ r = ForestWithRoom(f, depth) /\ q = ForestWithRoom(i, depth)
                          /\ e = Element(b)
    OBVIOUS
  <1>2. HasForestFields(r) /\ r.leaf = f.leaf /\ r.used = f.used /\ q = ForestImage(r)
    BY <1>1, RoomImage
  <1>3. /\ HasForestFields(q)
        /\ q.treeCount = r.treeCount /\ q.activeTreeId = r.activeTreeId
        /\ q.nextIndex = r.nextIndex /\ q.frontier = r.frontier
        /\ q.leaf = ElementsOf(r.leaf) /\ q.used = Elements(r.used)
    BY <1>2, ImageFields
  <1>4. PICK tree, index, old : /\ tree = r.activeTreeId /\ index = TreeNextIndex(r, tree)
                                /\ old = Frontier(r, tree)
    OBVIOUS
  <1>5. /\ tree = q.activeTreeId /\ index = TreeNextIndex(q, tree)
        /\ old = Frontier(q, tree)
    BY <1>3, <1>4 DEF TreeNextIndex, Frontier
  <1>6. PICK root, nodes, next, bytes, leaves :
          /\ root = NewRoot(old, e, index, depth)
          /\ nodes = Put(r.frontier, tree, NewFrontier(old, e, index, depth))
          /\ next = Put(r.nextIndex, tree, index + 1)
          /\ bytes = Put(r.leaf, <<tree, index>>, b)
          /\ leaves = Put(q.leaf, <<tree, index>>, e)
    OBVIOUS
  <1>7. PICK h, k : /\ h = RecordRoot(r, tree, index % MaxRootHistory, root)
                    /\ k = RecordRoot(q, tree, index % MaxRootHistory, root)
    OBVIOUS
  <1>8. /\ HasForestFields(h) /\ h.leaf = r.leaf /\ h.used = r.used /\ k = ForestImage(h)
    BY <1>2, <1>7, RecordRootImage
  <1>9. /\ HasForestFields(k)
        /\ k.treeCount = h.treeCount /\ k.activeTreeId = h.activeTreeId
        /\ k.rootSlot = h.rootSlot /\ k.rootIndex = h.rootIndex /\ k.used = Elements(h.used)
    BY <1>8, ImageFields
  <1>10. PICK m, n : m = InsertLeafIntoTree(r, tree, e, depth) /\ n = InsertNote(i, e, depth)
    OBVIOUS
  <1>11. m = [h EXCEPT !.leaf = Put(r.leaf, <<tree, index>>, e),
                       !.frontier = nodes, !.nextIndex = next]
    BY <1>4, <1>6, <1>7, <1>10 DEF InsertLeafIntoTree
  <1>12. g = [m EXCEPT !.leaf = bytes, !.used = m.used \cup {FieldBytes(e)}]
    BY <1>1, <1>4, <1>6, <1>10
    DEF InsertNoteBytes, CommitmentUsedKey, CanonicalFieldBytes
  <1>13. /\ HasForestFields(g) /\ g.leaf = bytes /\ g.used = f.used \cup {FieldBytes(e)}
         /\ g.treeCount = h.treeCount /\ g.activeTreeId = h.activeTreeId
         /\ g.nextIndex = next /\ g.frontier = nodes
         /\ g.rootSlot = h.rootSlot /\ g.rootIndex = h.rootIndex
    <2>1. /\ HasForestFields(m) /\ m.used = f.used
          /\ m.treeCount = h.treeCount /\ m.activeTreeId = h.activeTreeId
          /\ m.nextIndex = next /\ m.frontier = nodes
          /\ m.rootSlot = h.rootSlot /\ m.rootIndex = h.rootIndex
      BY <1>2, <1>8, <1>11 DEF HasForestFields
    <2> QED
      BY <1>12, <2>1 DEF HasForestFields
  <1>14. PICK p : p = InsertLeafIntoTree(q, tree, e, depth)
    OBVIOUS
  <1>15. p = [k EXCEPT !.leaf = leaves, !.frontier = nodes, !.nextIndex = next]
    BY <1>3, <1>5, <1>6, <1>7, <1>14 DEF InsertLeafIntoTree
  <1>16. n = [p EXCEPT !.used = p.used \cup {e}]
    BY <1>1, <1>5, <1>10, <1>14 DEF InsertNote
  <1>17. /\ HasForestFields(n) /\ n.leaf = leaves /\ n.used = Elements(f.used) \cup {e}
         /\ n.treeCount = k.treeCount /\ n.activeTreeId = k.activeTreeId
         /\ n.nextIndex = next /\ n.frontier = nodes
         /\ n.rootSlot = k.rootSlot /\ n.rootIndex = k.rootIndex
    <2>1. /\ HasForestFields(p) /\ p.leaf = leaves /\ p.used = Elements(f.used)
          /\ p.treeCount = k.treeCount /\ p.activeTreeId = k.activeTreeId
          /\ p.nextIndex = next /\ p.frontier = nodes
          /\ p.rootSlot = k.rootSlot /\ p.rootIndex = k.rootIndex
      BY <1>2, <1>8, <1>9, <1>15 DEF HasForestFields
    <2> QED
      BY <1>16, <2>1 DEF HasForestFields
  <1>18. Canonical(g.used) /\ Elements(g.used) = Elements(f.used) \cup {e}
    BY <1>13, OneMoreKey
  <1>19. leaves = ElementsOf(bytes)
    BY <1>1, <1>3, <1>6, OneMoreLeaf
  <1>20. n = ForestImage(g)
    BY <1>9, <1>13, <1>17, <1>18, <1>19, ImageIs
  <1> QED
    BY <1>1, <1>10, <1>13, <1>18, <1>20

(* The duplicate check over keys is the one over elements. *)
LEMMA CanInsertBytes ==
    ASSUME NEW f, HasForestFields(f), Canonical(f.used), NEW b
    PROVE  CanInsertNoteBytes(f, b) <=> CanInsertNote(ForestImage(f), Element(b))
  <1>1. ForestImage(f).used = Elements(f.used)
    BY ImageFields
  <1>2. FieldBytes(Element(b)) \in f.used <=> Element(b) \in Elements(f.used)
    BY KeysAreElements
  <1> QED
    BY <1>1, <1>2
    DEF CanInsertNoteBytes, CanInsertNote, CommitmentUsedKey, CanonicalFieldBytes

-----------------------------------------------------------------------------
(***************************************************************************)
(* The registration tree with elements for bytes and keys.                 *)
(***************************************************************************)

RegImage(r) == [r EXCEPT !.leaf = ElementsOf(@), !.used = Elements(@)]

HasRegFields(r) ==
    r = [nextIndex |-> r.nextIndex, leaf |-> r.leaf, frontier |-> r.frontier,
         root |-> r.root, used |-> r.used]

(* Its fields are the tree's, or made of them. *)
LEMMA RegImageFields ==
    ASSUME NEW r, HasRegFields(r), NEW s, s = RegImage(r)
    PROVE  /\ HasRegFields(s)
           /\ s.nextIndex = r.nextIndex /\ s.frontier = r.frontier /\ s.root = r.root
           /\ s.leaf = ElementsOf(r.leaf) /\ s.used = Elements(r.used)
  BY DEF RegImage, HasRegFields

(* Registering bytes is registering their element. *)
LEMMA RegisterBytesImage ==
    ASSUME NEW r, HasRegFields(r), Canonical(r.used), NEW b,
           NEW s, s = InsertRegCommitmentBytes(r, b)
    PROVE  /\ HasRegFields(s) /\ Canonical(s.used)
           /\ RegImage(s) = InsertRegCommitment(RegImage(r), Element(b))
  <1>1. PICK e, i, n : e = Element(b) /\ i = RegImage(r) /\ n = r.nextIndex
    OBVIOUS
  <1>2. /\ i.nextIndex = n /\ i.frontier = r.frontier /\ i.root = r.root
        /\ i.leaf = ElementsOf(r.leaf) /\ i.used = Elements(r.used)
    BY <1>1, RegImageFields
  <1>3. PICK bytes, leaves, nodes, root :
          /\ bytes = Put(r.leaf, n, b) /\ leaves = Put(i.leaf, n, e)
          /\ nodes = NewFrontier(r.frontier, e, n, RegTreeDepth)
          /\ root = Put(r.root, RegRootKey, NewRoot(r.frontier, e, n, RegTreeDepth))
    OBVIOUS
  <1>4. PICK t : t = InsertRegCommitment(r, e)
    OBVIOUS
  <1>5. /\ t = [nextIndex |-> n + 1, leaf |-> Put(r.leaf, n, e), frontier |-> nodes,
                root |-> root, used |-> r.used \cup {e}]
        /\ InsertRegCommitment(i, e)
             = [nextIndex |-> n + 1, leaf |-> leaves, frontier |-> nodes,
                root |-> root, used |-> i.used \cup {e}]
    BY <1>1, <1>2, <1>3, <1>4 DEF InsertRegCommitment
  <1>6. s = [t EXCEPT !.leaf = bytes, !.used = r.used \cup {FieldBytes(e)}]
    BY <1>1, <1>3, <1>4
    DEF InsertRegCommitmentBytes, RegCommitmentUsedKey, CanonicalFieldBytes
  <1>7. s = [nextIndex |-> n + 1, leaf |-> bytes, frontier |-> nodes,
             root |-> root, used |-> r.used \cup {FieldBytes(e)}]
    BY <1>5, <1>6
  <1>8. HasRegFields(s)
    BY <1>7 DEF HasRegFields
  <1>9. Canonical(s.used) /\ Elements(s.used) = i.used \cup {e}
    BY <1>2, <1>7, OneMoreKey
  <1>10. ElementsOf(s.leaf) = leaves
    BY <1>1, <1>2, <1>3, <1>7, OneMoreLeaf
  <1>11. RegImage(s) = InsertRegCommitment(i, e)
    <2>1. PICK j : j = RegImage(s)
      OBVIOUS
    <2>2. /\ HasRegFields(j)
          /\ j.nextIndex = n + 1 /\ j.frontier = nodes /\ j.root = root
          /\ j.leaf = leaves /\ j.used = i.used \cup {e}
      <3>1. s.nextIndex = n + 1 /\ s.frontier = nodes /\ s.root = root
        BY <1>7
      <3>2. /\ HasRegFields(j)
            /\ j.nextIndex = s.nextIndex /\ j.frontier = s.frontier /\ j.root = s.root
            /\ j.leaf = ElementsOf(s.leaf) /\ j.used = Elements(s.used)
        BY <1>8, <2>1, RegImageFields
      <3> QED
        BY <1>9, <1>10, <3>1, <3>2
    <2>3. j = [nextIndex |-> n + 1, leaf |-> leaves, frontier |-> nodes,
               root |-> root, used |-> i.used \cup {e}]
      BY <2>2 DEF HasRegFields
    <2> QED
      BY <1>5, <2>1, <2>3
  <1> QED
    BY <1>1, <1>8, <1>9, <1>11

(* The duplicate check over keys is the one over elements. *)
LEMMA CanRegisterBytes ==
    ASSUME NEW r, HasRegFields(r), Canonical(r.used), NEW b
    PROVE  CanInsertRegCommitmentBytes(r, b) <=> CanInsertRegCommitment(RegImage(r), Element(b))
  <1>1. RegImage(r).used = Elements(r.used) /\ RegImage(r).nextIndex = r.nextIndex
    BY RegImageFields
  <1>2. FieldBytes(Element(b)) \in r.used <=> Element(b) \in Elements(r.used)
    BY KeysAreElements
  <1> QED
    BY <1>1, <1>2
    DEF CanInsertRegCommitmentBytes, CanInsertRegCommitment, RegCommitmentUsedKey,
        CanonicalFieldBytes

-----------------------------------------------------------------------------
(***************************************************************************)
(* The inductive invariant: the store's keys are canonical, its image is a *)
(* well-formed store without duplicates, and behind ValidateBasic the      *)
(* element 0 is in none of it.                                             *)
(***************************************************************************)

BytesInv(f) ==
    /\ HasForestFields(f) /\ Canonical(f.used)
    /\ Good(ForestImage(f)) /\ UniqueLeaves(ForestImage(f)) /\ Exact(ForestImage(f))

RegBytesInv(r) == HasRegFields(r) /\ Canonical(r.used) /\ Registers(RegImage(r))

NoZero == LeavesAreNotes(ForestImage(forest)) /\ Zero \notin Elements(spent)

WireInv ==
    /\ BytesInv(forest) /\ RegBytesInv(registration) /\ Canonical(spent)
    /\ validateFirst => NoZero

(* The genesis store is empty. *)
LEMMA WireInitInv == WireInit => WireInv
  <1> SUFFICES ASSUME WireInit PROVE WireInv
    OBVIOUS
  <1>1. /\ forest = EmptyForest /\ registration = EmptyRegistration /\ spent = {}
    BY DEF WireInit, Init
  <1>2. ElementsOf(<<>>) = <<>> /\ Elements({}) = {}
    BY DEF ElementsOf, Elements
  <1>3. ForestImage(forest) = EmptyForest /\ HasForestFields(forest)
    <2>1. PICK e : e = EmptyForest
      OBVIOUS
    <2>2. HasForestFields(e) /\ e.leaf = <<>> /\ e.used = {}
      BY <2>1 DEF EmptyForest, HasForestFields
    <2>3. e = ForestImage(e)
      BY <1>2, <2>2, ImageIs
    <2> QED
      BY <1>1, <2>1, <2>2, <2>3
  <1>4. BytesInv(forest)
    <2>1. Canonical(forest.used)
      BY <1>1 DEF EmptyForest, Canonical
    <2> QED
      BY <1>3, <2>1, EmptyForestGood DEF BytesInv
  <1>5. RegImage(registration) = EmptyRegistration /\ HasRegFields(registration)
    <2>1. PICK e, i : e = EmptyRegistration /\ i = RegImage(e)
      OBVIOUS
    <2>2. HasRegFields(e) /\ e.leaf = <<>> /\ e.used = {}
      BY <2>1 DEF EmptyRegistration, HasRegFields
    <2>3. /\ HasRegFields(i)
          /\ i.nextIndex = e.nextIndex /\ i.frontier = e.frontier /\ i.root = e.root
          /\ i.leaf = <<>> /\ i.used = {}
      BY <1>2, <2>1, <2>2, RegImageFields
    <2>4. i = e
      BY <2>2, <2>3 DEF HasRegFields
    <2> QED
      BY <1>1, <2>1, <2>2, <2>4
  <1>6. RegBytesInv(registration)
    <2>1. Canonical(registration.used)
      BY <1>1 DEF EmptyRegistration, Canonical
    <2> QED
      BY <1>5, <2>1, EmptyRegisters DEF RegBytesInv
  <1>7. NoZero /\ Canonical(spent)
    BY <1>1, <1>2, <1>3, EmptyForestGood DEF NoZero, Canonical
  <1> QED
    BY <1>4, <1>6, <1>7 DEF WireInv

(* New bytes keep the store well-formed, whatever their element. *)
LEMMA InsertBytesKeeps ==
    ASSUME NEW f, BytesInv(f), NEW b, CanInsertNoteBytes(f, b), NEW depth,
           NEW g, g = InsertNoteBytes(f, b, depth)
    PROVE  /\ BytesInv(g)
           /\ ForestImage(g) = InsertNote(ForestImage(f), Element(b), depth)
           /\ LeavesAreNotes(ForestImage(f)) /\ Element(b) \in Commitment
                => LeavesAreNotes(ForestImage(g))
  <1>1. PICK i, e : i = ForestImage(f) /\ e = Element(b)
    OBVIOUS
  <1>2. PICK j : j = ForestImage(g)
    OBVIOUS
  <1>3. HasForestFields(g) /\ Canonical(g.used) /\ j = InsertNote(i, e, depth)
    BY <1>1, <1>2, InsertBytesImage DEF BytesInv
  <1>4. Good(i) /\ UniqueLeaves(i) /\ Exact(i) /\ CanInsertNote(i, e)
    BY <1>1, CanInsertBytes DEF BytesInv
  <1>5. Good(j) /\ Exact(j)
    BY <1>3, <1>4, InsertNoteGood DEF IndexKept
  <1>6. UniqueLeaves(j)
    BY <1>3, <1>4, InsertNoteUnique
  <1>7. LeavesAreNotes(i) /\ e \in Commitment => LeavesAreNotes(j)
    BY <1>3, <1>4, InsertNoteNotes
  <1> QED
    BY <1>1, <1>2, <1>3, <1>5, <1>6, <1>7 DEF BytesInv

(* WireRegister keeps it: the bytes are those of the identity proved. *)
LEMMA WireRegisterKeeps ==
    ASSUME WireInv, NEW identity \in Identity, NEW commitment, NEW chunk,
           Element(chunk) = identity, NEW chainId, NEW key, NEW data,
           WireRegister(commitment, chunk, chainId, key, data), UNCHANGED validateFirst
    PROVE  WireInv'
  <1>1. Element(commitment) = identity
    BY ReadBack DEF WireRegister, SameBytes
  <1>2. registration' = InsertRegCommitmentBytes(registration, commitment)
    BY DEF WireRegister
  <1>3. /\ HasRegFields(registration') /\ Canonical(registration'.used)
        /\ RegImage(registration') = InsertRegCommitment(RegImage(registration), identity)
    BY <1>1, <1>2, RegisterBytesImage DEF WireInv, RegBytesInv
  <1>4. CanInsertRegCommitment(RegImage(registration), identity)
    BY <1>1, CanRegisterBytes DEF WireRegister, WireInv, RegBytesInv
  <1>5. Registers(RegImage(registration'))
    <2>1. PICK r, s : r = RegImage(registration) /\ s = RegImage(registration')
      OBVIOUS
    <2>2. Registers(s)
      BY <1>3, <1>4, <2>1, InsertRegisters DEF WireInv, RegBytesInv
    <2> QED
      BY <2>1, <2>2
  <1>6. UNCHANGED <<forest, spent, validateFirst>>
    BY DEF WireRegister
  <1> QED
    BY <1>3, <1>5, <1>6 DEF WireInv, RegBytesInv, NoZero

(* WireDeposit keeps it. *)
LEMMA WireDepositKeeps ==
    ASSUME WireInv, NEW note \in Commitment, NEW commitment, NEW chunk,
           Element(chunk) = note, NEW amount, NEW denom, NEW key, NEW data,
           WireDeposit(commitment, chunk, amount, denom, key, data), UNCHANGED validateFirst
    PROVE  WireInv'
  <1>1. Element(commitment) = note
    BY ReadBack DEF WireDeposit, SameBytes
  <1>2. /\ CanInsertNoteBytes(forest, commitment)
        /\ forest' = InsertNoteBytes(forest, commitment, params.treeDepth)
        /\ UNCHANGED <<registration, spent, validateFirst>>
    BY DEF WireDeposit
  <1>3. PICK depth, f, g : depth = params.treeDepth /\ f = forest /\ g = forest'
    OBVIOUS
  <1>4. /\ BytesInv(g)
        /\ LeavesAreNotes(ForestImage(f)) => LeavesAreNotes(ForestImage(g))
    BY <1>1, <1>2, <1>3, InsertBytesKeeps DEF WireInv
  <1> QED
    BY <1>2, <1>3, <1>4 DEF WireInv, NoZero

-----------------------------------------------------------------------------
(***************************************************************************)
(* Transact over bytes.                                                    *)
(***************************************************************************)

ByteString(b) == b = Encoded(Element(b), <<b.size, b.lap>>)

(* Whatever transact message the handler may be given: byte strings of any *)
(* form, whose outputs are notes or 0.                                     *)
WireMessage(msg) ==
    /\ msg.denom \in Denom /\ msg.inputs \in NotePair
    /\ ElementsOf(msg.outputs) \in NotePair
    /\ \A i \in 1..2 : ByteString(msg.nullifiers[i]) /\ ByteString(msg.outputs[i])

(* Behind ValidateBasic 0 is written in one way only. *)
LEMMA OneZero ==
    ASSUME NEW b, ByteString(b), ValidFieldBytes(b), Element(b) = Zero
    PROVE  IsZeroBytes(b)
  BY DEF ByteString, ValidFieldBytes, IsZeroBytes, FieldBytes, Encoded, Element

(* An output keeps the store well-formed, whatever it is. *)
LEMMA OutputBytesKeep ==
    ASSUME NEW f, BytesInv(f), NEW b, CanInsertOutputBytes(f, b),
           Element(b) \in Commitment \cup {Zero},
           NEW g, g = InsertOutputBytes(f, b)
    PROVE  /\ BytesInv(g)
           /\ ForestImage(g) = IF IsZeroBytes(b) THEN ForestImage(f)
                               ELSE InsertNote(ForestImage(f), Element(b), params.treeDepth)
           /\ LeavesAreNotes(ForestImage(f)) /\ (IsZeroBytes(b) \/ Element(b) # Zero)
                => LeavesAreNotes(ForestImage(g))
  <1>1. CASE IsZeroBytes(b)
    BY <1>1 DEF InsertOutputBytes
  <1>2. CASE ~ IsZeroBytes(b)
    <2>1. PICK depth : depth = params.treeDepth
      OBVIOUS
    <2>2. CanInsertNoteBytes(f, b) /\ g = InsertNoteBytes(f, b, depth)
      BY <1>2, <2>1 DEF CanInsertOutputBytes, InsertOutputBytes
    <2> QED
      BY <1>2, <2>1, <2>2, InsertBytesKeeps
  <1> QED
    BY <1>1, <1>2

(* What a transact marks: canonical keys, none of them 0's if ValidateBasic *)
(* ran.                                                                     *)
LEMMA MarkedKeys ==
    ASSUME NEW msg, WireMessage(msg)
    PROVE  /\ Canonical(Marked(msg, 2))
           /\ ValidTransact(msg) => Zero \notin Elements(Marked(msg, 2))
  <1>1. ASSUME NEW key \in Marked(msg, 2)
        PROVE  \E i \in 1..2 : /\ ~ IsZeroBytes(msg.nullifiers[i])
                               /\ key = FieldBytes(Element(msg.nullifiers[i]))
    BY <1>1 DEF Marked, NullifierKey, CanonicalFieldBytes
  <1>2. Canonical(Marked(msg, 2))
    BY <1>1, ReadBack DEF Canonical
  <1>3. ASSUME ValidTransact(msg), Zero \in Elements(Marked(msg, 2)) PROVE FALSE
    <2>1. PICK key \in Marked(msg, 2) : Element(key) = Zero
      BY <1>3 DEF Elements
    <2>2. PICK i \in 1..2 : /\ ~ IsZeroBytes(msg.nullifiers[i])
                            /\ key = FieldBytes(Element(msg.nullifiers[i]))
      BY <1>1, <2>1
    <2>3. Element(msg.nullifiers[i]) = Zero
      BY <2>1, <2>2, ReadBack
    <2> QED
      BY <1>3, <2>2, <2>3, OneZero DEF WireMessage, ValidTransact
  <1> QED
    BY <1>2, <1>3

(* WireTransact keeps the invariant. *)
LEMMA WireTransactKeeps ==
    ASSUME WireInv, NEW msg, WireMessage(msg), WireTransact(msg), UNCHANGED validateFirst
    PROVE  WireInv'
  <1>1. PICK a, b : a = msg.outputs[1] /\ b = msg.outputs[2]
    OBVIOUS
  <1>2. /\ Element(a) \in Commitment \cup {Zero} /\ Element(b) \in Commitment \cup {Zero}
        /\ ByteString(a) /\ ByteString(b)
    <2>1. PICK es \in NotePair : es = ElementsOf(msg.outputs)
      BY DEF WireMessage
    <2>2. /\ DOMAIN es = {1, 2}
          /\ es[1] \in Commitment \cup {Zero} /\ es[2] \in Commitment \cup {Zero}
      BY DEF NotePair
    <2>3. es[1] = Element(a) /\ es[2] = Element(b)
      BY <1>1, <2>1, <2>2 DEF ElementsOf
    <2> QED
      BY <1>1, <2>2, <2>3 DEF WireMessage
  <1>3. PICK f, m, g : f = forest /\ m = InsertOutputBytes(f, a) /\ g = forest'
    OBVIOUS
  <1>4. /\ CanInsertOutputBytes(f, a) /\ CanInsertOutputBytes(m, b)
        /\ g = InsertOutputBytes(m, b)
    BY <1>1, <1>3 DEF WireTransact, WireOutputsAccepted
  <1>5. /\ BytesInv(m)
        /\ LeavesAreNotes(ForestImage(f)) /\ (IsZeroBytes(a) \/ Element(a) # Zero)
             => LeavesAreNotes(ForestImage(m))
    BY <1>2, <1>3, <1>4, OutputBytesKeep DEF WireInv
  <1>6. /\ BytesInv(g)
        /\ LeavesAreNotes(ForestImage(m)) /\ (IsZeroBytes(b) \/ Element(b) # Zero)
             => LeavesAreNotes(ForestImage(g))
    BY <1>2, <1>4, <1>5, OutputBytesKeep
  <1>7. spent' = spent \cup Marked(msg, 2)
    BY DEF WireTransact
  <1>8. Canonical(spent')
    BY <1>7, MarkedKeys DEF WireInv, Canonical
  <1>9. validateFirst' => NoZero'
    <2> SUFFICES ASSUME validateFirst PROVE NoZero'
      OBVIOUS
    <2>1. ValidTransact(msg) /\ NoZero
      BY DEF WireTransact, WireInv
    <2>2. ValidFieldBytes(a) /\ ValidFieldBytes(b)
      BY <1>1, <2>1 DEF ValidTransact
    <2>3. (IsZeroBytes(a) \/ Element(a) # Zero) /\ (IsZeroBytes(b) \/ Element(b) # Zero)
      BY <1>2, <2>2, OneZero
    <2>4. LeavesAreNotes(ForestImage(g))
      BY <1>3, <1>5, <1>6, <2>1, <2>3 DEF NoZero
    <2>5. Zero \notin Elements(spent')
      BY <1>7, <2>1, MarkedKeys DEF NoZero, Elements
    <2> QED
      BY <1>3, <2>4, <2>5 DEF NoZero
  <1> QED
    BY <1>3, <1>6, <1>8, <1>9 DEF WireInv, WireTransact

(* Any form is a string of its element. *)
LEMMA EncodedIsBytes ==
    \A e, form : Element(Encoded(e, form)) = e /\ ByteString(Encoded(e, form))
  BY DEF Encoded, Element, ByteString

(* What a transact message is a writing of: notes, elements and numbers. *)
IsPlan(plan) ==
    /\ plan = [inputs |-> plan.inputs, roots |-> <<plan.roots[1], plan.roots[2]>>,
               outputs |-> plan.outputs, regRoot |-> plan.regRoot, denom |-> plan.denom,
               withdraw |-> ValueOf(plan.inputs) - ValueOf(plan.outputs) - plan.fee,
               fee |-> plan.fee]
    /\ plan.denom \in Denom
    /\ plan.inputs \in Pairs(plan.denom) /\ plan.outputs \in Pairs(plan.denom)
    /\ plan.roots[1] \in RootsFor(plan.inputs[1]) /\ plan.roots[2] \in RootsFor(plan.inputs[2])
    /\ plan.fee \in 0..(ValueOf(plan.inputs) - ValueOf(plan.outputs))
    /\ TransactStatement(plan)

(* The bytes are of the plan's elements, and one amount is the plan's. *)
IsWriting(msg, plan) ==
    /\ msg.inputs = plan.inputs /\ msg.denom = plan.denom
    /\ ElementsOf(msg.roots) = plan.roots /\ DOMAIN msg.roots = 1..2
    /\ ElementsOf(msg.outputs) = plan.outputs /\ DOMAIN msg.outputs = 1..2
    /\ Element(msg.regRoot) = plan.regRoot
    /\ msg.withdraw.value \in Int /\ msg.fee.value \in Int
    /\ msg.withdraw.value = plan.withdraw \/ msg.fee.value = plan.fee

(* An amount, in whatever words, has a number. *)
LEMMA AmountsAreNumbers ==
    ASSUME NEW v \in Int, NEW amount \in AmountTexts(v)
    PROVE  amount.value \in Int
  <1>1. v + FieldModulus \in Int /\ v - FieldModulus \in Int
    BY SupplyAssumption
  <1>2. \E n \in Int : \E text : amount = [text |-> text, value |-> n]
    <2>1. \/ \E n \in {v, v + FieldModulus, v - FieldModulus} : amount = Number(n)
          \/ amount = Junk \/ amount \in NothingPaid
      BY Zenon DEF AmountTexts
    <2>2. amount = Junk \/ amount \in NothingPaid => \E text : amount = [text |-> text, value |-> 0]
      BY Zenon DEF Junk, NothingPaid
    <2>3. ASSUME NEW n \in {v, v + FieldModulus, v - FieldModulus}, amount = Number(n)
          PROVE  n \in Int /\ \E text : amount = [text |-> text, value |-> n]
      <3>1. n \in Int
        BY <1>1
      <3>2. \E text : amount = [text |-> text, value |-> n]
        BY <2>3, Zenon DEF Number
      <3> QED
        BY <3>1, <3>2
    <2>4. 0 \in Int
      OBVIOUS
    <2> QED
      BY <2>1, <2>2, <2>3, <2>4
  <1> QED
    BY <1>2

(* Every message that WirePool tries is a writing of a plan. *)
LEMMA TriedArePlanned ==
    ASSUME WireTransactAny
    PROVE  \E msg, plan : /\ WireMessage(msg) /\ WireTransact(msg)
                          /\ IsPlan(plan) /\ IsWriting(msg, plan)
  <1>1. PICK denom \in Denom :
          \E inputs \in Pairs(denom) :
          \E root1 \in RootsFor(inputs[1]), root2 \in RootsFor(inputs[2]) :
          \E outputs \in Pairs(denom) : \E regRoot :
          \E fee \in 0..(ValueOf(inputs) - ValueOf(outputs)) :
            SendWritten([inputs |-> inputs, roots |-> <<root1, root2>>,
                         outputs |-> outputs, regRoot |-> regRoot, denom |-> denom,
                         withdraw |-> ValueOf(inputs) - ValueOf(outputs) - fee, fee |-> fee])
    BY DEF WireTransactAny
  <1>2. PICK inputs \in Pairs(denom) :
          \E root1 \in RootsFor(inputs[1]), root2 \in RootsFor(inputs[2]) :
          \E outputs \in Pairs(denom) : \E regRoot :
          \E fee \in 0..(ValueOf(inputs) - ValueOf(outputs)) :
            SendWritten([inputs |-> inputs, roots |-> <<root1, root2>>,
                         outputs |-> outputs, regRoot |-> regRoot, denom |-> denom,
                         withdraw |-> ValueOf(inputs) - ValueOf(outputs) - fee, fee |-> fee])
    BY <1>1
  <1>3. PICK root1 \in RootsFor(inputs[1]), root2 \in RootsFor(inputs[2]) :
          \E outputs \in Pairs(denom) : \E regRoot :
          \E fee \in 0..(ValueOf(inputs) - ValueOf(outputs)) :
            SendWritten([inputs |-> inputs, roots |-> <<root1, root2>>,
                         outputs |-> outputs, regRoot |-> regRoot, denom |-> denom,
                         withdraw |-> ValueOf(inputs) - ValueOf(outputs) - fee, fee |-> fee])
    BY <1>2
  <1>4. PICK outputs \in Pairs(denom) :
          \E regRoot :
          \E fee \in 0..(ValueOf(inputs) - ValueOf(outputs)) :
            SendWritten([inputs |-> inputs, roots |-> <<root1, root2>>,
                         outputs |-> outputs, regRoot |-> regRoot, denom |-> denom,
                         withdraw |-> ValueOf(inputs) - ValueOf(outputs) - fee, fee |-> fee])
    BY <1>3
  <1>5. PICK regRoot :
          \E fee \in 0..(ValueOf(inputs) - ValueOf(outputs)) :
            SendWritten([inputs |-> inputs, roots |-> <<root1, root2>>,
                         outputs |-> outputs, regRoot |-> regRoot, denom |-> denom,
                         withdraw |-> ValueOf(inputs) - ValueOf(outputs) - fee, fee |-> fee])
    BY <1>4
  <1>6. PICK fee \in 0..(ValueOf(inputs) - ValueOf(outputs)) :
            SendWritten([inputs |-> inputs, roots |-> <<root1, root2>>,
                         outputs |-> outputs, regRoot |-> regRoot, denom |-> denom,
                         withdraw |-> ValueOf(inputs) - ValueOf(outputs) - fee, fee |-> fee])
    BY <1>5
  <1>7. PICK surplus : surplus = ValueOf(inputs) - ValueOf(outputs)
    OBVIOUS
  <1>8. PICK plan : plan = [inputs |-> inputs, roots |-> <<root1, root2>>,
                            outputs |-> outputs, regRoot |-> regRoot, denom |-> denom,
                            withdraw |-> surplus - fee, fee |-> fee]
    OBVIOUS
  <1>9. IsPlan(plan)
    <2>1. TransactStatement(plan)
      BY <1>6, <1>7, <1>8 DEF SendWritten
    <2> QED
      BY <1>7, <1>8, <2>1 DEF IsPlan
  <1>10. inputs \in NotePair /\ outputs \in NotePair
    BY DEF Pairs, NotePair
  <1>11. plan.withdraw \in Int /\ plan.fee \in Int
    <2>1. ValueOf(inputs) \in Int /\ ValueOf(outputs) \in Int
      BY <1>10, NoteAssumption DEF ValueOf, Worth, NotePair
    <2> QED
      BY <1>7, <1>8, <2>1
  <1>12. PICK writing \in Writings(plan.withdraw, plan.fee) :
          WireTransact(
            [inputs     |-> inputs,
             nullifiers |-> [i \in 1..2 |-> Encoded(NullifierElement(inputs[i]), writing[1][i])],
             roots      |-> [i \in 1..2 |-> Encoded(plan.roots[i], writing[1][2 + i])],
             outputs    |-> [i \in 1..2 |-> Encoded(outputs[i], writing[1][4 + i])],
             regRoot    |-> Encoded(regRoot, writing[1][7]),
             denom      |-> denom,
             withdraw   |-> writing[2][1], fee |-> writing[2][2]])
    BY <1>6, <1>7, <1>8 DEF SendWritten
  <1>13. PICK form, withdraw, paid :
           /\ form = writing[1] /\ withdraw = writing[2][1] /\ paid = writing[2][2]
    OBVIOUS
  <1>14. PICK msg :
          msg = [inputs     |-> inputs,
                 nullifiers |-> [i \in 1..2 |-> Encoded(NullifierElement(inputs[i]), form[i])],
                 roots      |-> [i \in 1..2 |-> Encoded(plan.roots[i], form[2 + i])],
                 outputs    |-> [i \in 1..2 |-> Encoded(outputs[i], form[4 + i])],
                 regRoot    |-> Encoded(regRoot, form[7]),
                 denom      |-> denom,
                 withdraw   |-> withdraw, fee |-> paid]
    OBVIOUS
  <1>15. WireTransact(msg)
    BY <1>12, <1>13, <1>14
  <1>16. \A i \in 1..2 :
          /\ ByteString(msg.nullifiers[i]) /\ ByteString(msg.outputs[i])
          /\ Element(msg.outputs[i]) = outputs[i] /\ Element(msg.roots[i]) = plan.roots[i]
    BY <1>14, EncodedIsBytes
  <1>17. DOMAIN msg.roots = 1..2 /\ DOMAIN msg.outputs = 1..2
    BY <1>14
  <1>18. ElementsOf(msg.outputs) = outputs
    <2>1. ElementsOf(msg.outputs) = [i \in 1..2 |-> outputs[i]]
      BY <1>16, <1>17 DEF ElementsOf
    <2>2. outputs = [i \in 1..2 |-> outputs[i]]
      BY <1>10 DEF NotePair
    <2> QED
      BY <2>1, <2>2
  <1>19. ElementsOf(msg.roots) = plan.roots
    <2>1. ElementsOf(msg.roots) = [i \in 1..2 |-> plan.roots[i]]
      BY <1>16, <1>17 DEF ElementsOf
    <2>2. plan.roots = [i \in 1..2 |-> plan.roots[i]]
      BY <1>8
    <2> QED
      BY <2>1, <2>2
  <1>20. WireMessage(msg)
    BY <1>10, <1>14, <1>16, <1>18 DEF WireMessage
  <1>21. /\ withdraw.value \in Int /\ paid.value \in Int
         /\ withdraw.value = plan.withdraw \/ paid.value = plan.fee
    <2>1. \A v \in Int : Written(v).value = v
      BY DEF Written, Number
    <2>2. ASSUME NEW v \in Int, NEW amount \in AmountTexts(v) PROVE amount.value \in Int
      BY AmountsAreNumbers
    <2>3. \/ withdraw = Written(plan.withdraw) /\ paid = Written(plan.fee)
          \/ withdraw \in AmountTexts(plan.withdraw) /\ paid = Written(plan.fee)
          \/ withdraw = Written(plan.withdraw) /\ paid \in AmountTexts(plan.fee)
      BY <1>13 DEF Writings
    <2> QED
      BY <1>11, <2>1, <2>2, <2>3
  <1>22. IsWriting(msg, plan)
    BY <1>8, <1>14, <1>17, <1>18, <1>19, <1>21, EncodedIsBytes DEF IsWriting
  <1> QED
    BY <1>9, <1>15, <1>20, <1>22

(* Every step keeps the invariant. *)
LEMMA WireInvNext == WireInv /\ [WireNext]_wireVars => WireInv'
  <1> SUFFICES ASSUME WireInv, [WireNext]_wireVars PROVE WireInv'
    OBVIOUS
  <1>1. CASE UNCHANGED wireVars
    BY <1>1 DEF wireVars, vars, WireInv, NoZero
  <1>2. ASSUME NEW identity \in Identity, NEW commitment \in Encodings(identity),
               NEW chunk \in Encodings(identity), NEW chainId, NEW key, NEW data,
               WireRegister(commitment, chunk, chainId, key, data), UNCHANGED validateFirst
        PROVE  WireInv'
    <2>1. Element(chunk) = identity
      BY EncodedIsBytes DEF Encodings
    <2> QED
      BY <1>2, <2>1, WireRegisterKeeps
  <1>3. ASSUME NEW note \in Commitment, NEW commitment \in Encodings(note),
               NEW chunk \in Encodings(note), NEW amount, NEW denom, NEW key, NEW data,
               WireDeposit(commitment, chunk, amount, denom, key, data), UNCHANGED validateFirst
        PROVE  WireInv'
    <2>1. Element(chunk) = note
      BY EncodedIsBytes DEF Encodings
    <2> QED
      BY <1>3, <2>1, WireDepositKeeps
  <1>4. CASE WireTransactAny /\ UNCHANGED validateFirst
    BY <1>4, TriedArePlanned, WireTransactKeeps
  <1> QED
    BY <1>1, <1>2, <1>3, <1>4 DEF WireNext, WireStep

(* No element is in two leaves, of the forest or of the registration tree,  *)
(* however its bytes are written and with no ValidateBasic to rely on: the  *)
(* used markers are made of canonical bytes (CommitmentUsedKey).            *)
THEOREM ElementsStayUnique == WireSpec => []ElementsAreUnique
  <1>1. WireInv => ElementsAreUnique
    <2> SUFFICES ASSUME WireInv PROVE ElementsAreUnique
      OBVIOUS
    <2>1. ForestImage(forest).leaf = ElementsOf(forest.leaf)
      BY ImageFields DEF WireInv, BytesInv
    <2>2. PICK bytes, elements :
            /\ bytes = forest.leaf /\ elements = ForestImage(forest).leaf
            /\ elements = ElementsOf(bytes)
            /\ \A k1, k2 \in DOMAIN elements : elements[k1] = elements[k2] => k1 = k2
      BY <2>1 DEF WireInv, BytesInv, UniqueLeaves
    <2>3. \A k1, k2 \in DOMAIN bytes :
             Element(bytes[k1]) = Element(bytes[k2]) => k1 = k2
      BY <2>2 DEF ElementsOf
    <2>4. RegImage(registration).leaf = ElementsOf(registration.leaf)
      BY RegImageFields DEF WireInv, RegBytesInv
    <2>5. PICK written, registered :
            /\ written = registration.leaf /\ registered = RegImage(registration).leaf
            /\ registered = ElementsOf(written)
            /\ \A i, j \in DOMAIN registered : registered[i] = registered[j] => i = j
      BY <2>4 DEF WireInv, RegBytesInv, Registers
    <2>6. \A i, j \in DOMAIN written : Element(written[i]) = Element(written[j]) => i = j
      BY <2>5 DEF ElementsOf
    <2> QED
      BY <2>2, <2>3, <2>5, <2>6 DEF ElementsAreUnique
  <1> QED
    BY <1>1, WireInitInv, WireInvNext, PTL DEF WireSpec

(* Behind ValidateBasic the element 0, which a circuit takes for no note,   *)
(* never gets a leaf and its nullifier is never marked: validateFieldBytes  *)
(* leaves 0 one encoding, and the handler skips that one (isZeroBytes).     *)
THEOREM ZeroIsNeverStored == WireSpec => []ZeroStaysFree
  <1>1. WireInv => ZeroStaysFree
    <2> SUFFICES ASSUME WireInv, validateFirst PROVE /\ \A key \in DOMAIN forest.leaf :
                                                          Element(forest.leaf[key]) # Zero
                                                     /\ Zero \notin Elements(spent)
      BY DEF ZeroStaysFree
    <2>1. ForestImage(forest).leaf = ElementsOf(forest.leaf)
      BY ImageFields DEF WireInv, BytesInv
    <2>2. LeavesAreNotes(ForestImage(forest)) /\ Zero \notin Elements(spent)
      BY DEF WireInv, NoZero
    <2> QED
      BY <2>1, <2>2, ZeroAssumption DEF LeavesAreNotes, ElementsOf
  <1> QED
    BY <1>1, WireInitInv, WireInvNext, PTL DEF WireSpec

-----------------------------------------------------------------------------
(***************************************************************************)
(* Behind ValidateBasic a step over bytes is a step of NixPool, taken by   *)
(* the image of the store.  PoolOfElements is NixPool's module once more;  *)
(* of constants and given values its operators say what NixPool's say.     *)
(***************************************************************************)

(* Climbing a tree. *)
LEMMA SameClimb ==
    /\ \A map, key, value : PoolOfElements!Put(map, key, value) = Put(map, key, value)
    /\ \A map, key, default : PoolOfElements!Get(map, key, default) = Get(map, key, default)
    /\ PoolOfElements!ZeroHash = ZeroHash /\ PoolOfElements!Width = Width
    /\ \A frontier, leaf, index, depth :
          /\ PoolOfElements!NewRoot(frontier, leaf, index, depth)
               = NewRoot(frontier, leaf, index, depth)
          /\ PoolOfElements!NewFrontier(frontier, leaf, index, depth)
               = NewFrontier(frontier, leaf, index, depth)
  <1>1. /\ \A map, key, value : PoolOfElements!Put(map, key, value) = Put(map, key, value)
        /\ \A map, key, default : PoolOfElements!Get(map, key, default) = Get(map, key, default)
    BY DEF PoolOfElements!Put, Put, PoolOfElements!Get, Get
  <1>2. PoolOfElements!ZeroHash = ZeroHash
    BY DEF PoolOfElements!ZeroHash, ZeroHash, PoolOfElements!Leaf, Leaf,
           PoolOfElements!Hash2, Hash2
  <1>3. PoolOfElements!Width = Width
    BY DEF PoolOfElements!Width, Width
  <1>4. \A index, level : PoolOfElements!GoesLeft(index, level) <=> GoesLeft(index, level)
    BY <1>3 DEF PoolOfElements!GoesLeft, GoesLeft
  <1>5. \A frontier, leaf, index, depth :
           PoolOfElements!Path(frontier, leaf, index, depth) = Path(frontier, leaf, index, depth)
    BY <1>1, <1>2, <1>3
    DEF PoolOfElements!Path, Path, PoolOfElements!Leaf, Leaf, PoolOfElements!Hash2, Hash2,
        PoolOfElements!GoesLeft, GoesLeft, PoolOfElements!LeftSibling, LeftSibling
  <1>6. \A frontier, leaf, index, depth :
           PoolOfElements!NewRoot(frontier, leaf, index, depth)
             = NewRoot(frontier, leaf, index, depth)
    BY <1>5 DEF PoolOfElements!NewRoot, NewRoot
  <1>7. \A frontier, leaf, index, depth :
           PoolOfElements!NewFrontier(frontier, leaf, index, depth)
             = NewFrontier(frontier, leaf, index, depth)
    BY <1>3, <1>4, <1>5
    DEF PoolOfElements!NewFrontier, NewFrontier, PoolOfElements!GoesLeft, GoesLeft
  <1> QED
    BY <1>1, <1>2, <1>3, <1>6, <1>7

(* Inserting a note. *)
LEMMA SameInsertion ==
    /\ \A f, note, depth : PoolOfElements!InsertNote(f, note, depth) = InsertNote(f, note, depth)
    /\ \A f, note : PoolOfElements!CanInsertNote(f, note) <=> CanInsertNote(f, note)
  <1>1. \A index, root : /\ PoolOfElements!RootIndexIncr(index, root) = RootIndexIncr(index, root)
                         /\ PoolOfElements!RootIndexDecr(index, root) = RootIndexDecr(index, root)
    BY DEF PoolOfElements!RootIndexIncr, RootIndexIncr, PoolOfElements!RootIndexDecr, RootIndexDecr,
           PoolOfElements!BagAdd, BagAdd, PoolOfElements!BagRemove, BagRemove
  <1>2. \A f, key, root : PoolOfElements!SetRootIndexed(f, key, root) = SetRootIndexed(f, key, root)
    BY <1>1, SameClimb
    DEF PoolOfElements!SetRootIndexed, SetRootIndexed,
        PoolOfElements!IndexAfterWrite, IndexAfterWrite
  <1>3. \A f, depth : PoolOfElements!CreateTree(f, depth) = CreateTree(f, depth)
    BY <1>2, SameClimb
    DEF PoolOfElements!CreateTree, CreateTree, PoolOfElements!SetTreeRootIndexed,
        SetTreeRootIndexed, PoolOfElements!TreeRootKey, TreeRootKey
  <1>4. \A f, tree : PoolOfElements!TreeNextIndex(f, tree) = TreeNextIndex(f, tree)
    BY SameClimb DEF PoolOfElements!TreeNextIndex, TreeNextIndex
  <1>5. \A f, depth : PoolOfElements!ForestWithRoom(f, depth) = ForestWithRoom(f, depth)
    BY <1>3, <1>4, SameClimb
    DEF PoolOfElements!ForestWithRoom, ForestWithRoom, PoolOfElements!EnsureTreeExists,
        EnsureTreeExists, PoolOfElements!TreeFull, TreeFull
  <1>6. \A f, tree, slot, root :
           PoolOfElements!RecordRoot(f, tree, slot, root) = RecordRoot(f, tree, slot, root)
    BY <1>2
    DEF PoolOfElements!RecordRoot, RecordRoot, PoolOfElements!SetTreeRootIndexed,
        SetTreeRootIndexed, PoolOfElements!TreeRootKey, TreeRootKey,
        PoolOfElements!SetRootHistoryIndexed, SetRootHistoryIndexed,
        PoolOfElements!RootHistoryKey, RootHistoryKey
  <1>7. ASSUME NEW f, NEW tree, NEW note, NEW depth
        PROVE  PoolOfElements!InsertLeafIntoTree(f, tree, note, depth)
                 = InsertLeafIntoTree(f, tree, note, depth)
    <2>1. PICK index, old : index = TreeNextIndex(f, tree) /\ old = Frontier(f, tree)
      OBVIOUS
    <2>2. /\ index = PoolOfElements!TreeNextIndex(f, tree)
          /\ old = PoolOfElements!Frontier(f, tree)
      BY <1>4, <2>1, SameClimb DEF PoolOfElements!Frontier, Frontier
    <2>3. PICK root, g, nodes :
            /\ root = NewRoot(old, note, index, depth)
            /\ g = RecordRoot(f, tree, index % MaxRootHistory, root)
            /\ nodes = NewFrontier(old, note, index, depth)
      OBVIOUS
    <2>4. /\ root = PoolOfElements!NewRoot(old, note, index, depth)
          /\ g = PoolOfElements!RecordRoot(f, tree, index % MaxRootHistory, root)
          /\ nodes = PoolOfElements!NewFrontier(old, note, index, depth)
      BY <1>6, <2>3, SameClimb
    <2>5. InsertLeafIntoTree(f, tree, note, depth) =
            [g EXCEPT !.leaf      = Put(f.leaf, <<tree, index>>, note),
                      !.frontier  = Put(f.frontier, tree, nodes),
                      !.nextIndex = Put(f.nextIndex, tree, index + 1)]
      BY <2>1, <2>3 DEF InsertLeafIntoTree
    <2>6. PoolOfElements!InsertLeafIntoTree(f, tree, note, depth) =
            [g EXCEPT !.leaf      = Put(f.leaf, <<tree, index>>, note),
                      !.frontier  = Put(f.frontier, tree, nodes),
                      !.nextIndex = Put(f.nextIndex, tree, index + 1)]
      BY <2>2, <2>4, SameClimb DEF PoolOfElements!InsertLeafIntoTree
    <2> QED
      BY <2>5, <2>6
  <1>8. \A f, note, depth :
           PoolOfElements!InsertNote(f, note, depth) = InsertNote(f, note, depth)
    BY <1>5, <1>7 DEF PoolOfElements!InsertNote, InsertNote
  <1> QED
    BY <1>8 DEF PoolOfElements!CanInsertNote, CanInsertNote

(* Registering, and the registration root. *)
LEMMA SameRegistering ==
    /\ \A r, id : PoolOfElements!InsertRegCommitment(r, id) = InsertRegCommitment(r, id)
    /\ \A r, id : PoolOfElements!CanInsertRegCommitment(r, id) <=> CanInsertRegCommitment(r, id)
    /\ \A r : PoolOfElements!GetRegMerkleRoot(r) = GetRegMerkleRoot(r)
  BY SameClimb
  DEF PoolOfElements!InsertRegCommitment, InsertRegCommitment,
      PoolOfElements!CanInsertRegCommitment, CanInsertRegCommitment,
      PoolOfElements!GetRegMerkleRoot, GetRegMerkleRoot,
      PoolOfElements!RegRootKey, RegRootKey

(* What a transact proves. *)
LEMMA SameStatement ==
    /\ \A msg : PoolOfElements!TransactStatement(msg) <=> TransactStatement(msg)
    /\ \A root, depth : PoolOfElements!LeavesUnder(root, depth) = LeavesUnder(root, depth)
    /\ \A notes : PoolOfElements!ValueOf(notes) = ValueOf(notes)
  <1>1. \A root, depth : PoolOfElements!LeavesUnder(root, depth) = LeavesUnder(root, depth)
    BY DEF PoolOfElements!LeavesUnder, LeavesUnder, PoolOfElements!Generations, Generations,
           PoolOfElements!Below, Below, PoolOfElements!Children, Children
  <1>2. \A notes : PoolOfElements!ValueOf(notes) = ValueOf(notes)
    BY DEF PoolOfElements!ValueOf, ValueOf, PoolOfElements!Worth, Worth
  <1>3. \A msg : PoolOfElements!TransactStatement(msg) <=> TransactStatement(msg)
    BY <1>1, <1>2
    DEF PoolOfElements!TransactStatement, TransactStatement, PoolOfElements!Real, Real
  <1> QED
    BY <1>1, <1>2, <1>3

-----------------------------------------------------------------------------
(* A handler that takes notes and keys takes their elements.               *)

(* Registering bytes is registering the identity. *)
LEMMA RegisterMaps ==
    ASSUME WireInv, NEW identity, NEW commitment, NEW chunk, Element(chunk) = identity,
           NEW chainId, NEW key, NEW data,
           WireRegister(commitment, chunk, chainId, key, data)
    PROVE  PoolOfElements!Register(identity, chainId, key, data)
  <1>1. Element(commitment) = identity
    BY ReadBack DEF WireRegister, SameBytes
  <1>2. /\ PoolOfElements!EnforceAuditor(data)
        /\ PoolOfElements!VerifyRegisterPublicInputs(chainId, key)
        /\ PoolOfElements!HasVK("registration")
    BY DEF WireRegister, PoolOfElements!EnforceAuditor, EnforceAuditor,
           PoolOfElements!VerifyRegisterPublicInputs, VerifyRegisterPublicInputs,
           PoolOfElements!ChainBindingSet, ChainBindingSet,
           PoolOfElements!VerifyAuditorPublicInputs, VerifyAuditorPublicInputs,
           PoolOfElements!HasVK, HasVK
  <1>3. PICK r, s, i, j : /\ r = registration /\ s = registration'
                          /\ i = RegImage(r) /\ j = RegImage(s)
    OBVIOUS
  <1>4. ElementRegistration = i /\ ElementRegistration' = j
    BY <1>3 DEF ElementRegistration, RegImage
  <1>5. HasRegFields(r) /\ Canonical(r.used)
    BY <1>3 DEF WireInv, RegBytesInv
  <1>6. CanInsertRegCommitmentBytes(r, commitment) /\ s = InsertRegCommitmentBytes(r, commitment)
    BY <1>3 DEF WireRegister
  <1>7. CanInsertRegCommitment(i, identity) /\ j = InsertRegCommitment(i, identity)
    BY <1>1, <1>3, <1>5, <1>6, CanRegisterBytes, RegisterBytesImage
  <1>8. /\ PoolOfElements!CanInsertRegCommitment(ElementRegistration, identity)
        /\ ElementRegistration' = PoolOfElements!InsertRegCommitment(ElementRegistration, identity)
    BY <1>4, <1>7, SameRegistering
  <1>9. PoolOfElements!StoreAuditorData(identity, data)
    BY <1>1, SameClimb DEF WireRegister, StoreAuditorData, PoolOfElements!StoreAuditorData
  <1>10. UNCHANGED <<ElementForest, params, vks, Elements(spent), escrow, wallet>>
    BY DEF WireRegister, ElementForest
  <1> QED
    BY <1>2, <1>8, <1>9, <1>10 DEF PoolOfElements!Register

(* Depositing bytes is depositing the note. *)
LEMMA DepositMaps ==
    ASSUME WireInv, NEW note \in Commitment, NEW commitment, NEW chunk, Element(chunk) = note,
           NEW amount, NEW denom, NEW key, NEW data,
           WireDeposit(commitment, chunk, amount, denom, key, data)
    PROVE  PoolOfElements!Deposit(note, amount.value, denom, key, data)
  <1>1. Element(commitment) = note
    BY ReadBack DEF WireDeposit, SameBytes
  <1>2. /\ PoolOfElements!EnforceAuditor(data) /\ PoolOfElements!ChainBindingSet
        /\ PoolOfElements!HasVK("deposit") /\ PoolOfElements!CheckDenom(denom)
    BY DEF WireDeposit, PoolOfElements!EnforceAuditor, EnforceAuditor,
           PoolOfElements!ChainBindingSet, ChainBindingSet, PoolOfElements!HasVK, HasVK,
           PoolOfElements!CheckDenom, CheckDenom
  <1>3. PoolOfElements!VerifyDepositPublicInputs(note, amount.value, denom, key)
    BY DEF WireDeposit, PoolOfElements!VerifyDepositPublicInputs, VerifyDepositPublicInputs,
           PoolOfElements!DepositStatement, DepositStatement,
           PoolOfElements!FieldElement, FieldElement,
           PoolOfElements!VerifyAuditorPublicInputs, VerifyAuditorPublicInputs
  <1>4. PICK f, g, i, j, depth : /\ f = forest /\ g = forest' /\ depth = params.treeDepth
                                 /\ i = ForestImage(f) /\ j = ForestImage(g)
    OBVIOUS
  <1>5. ElementForest = i /\ ElementForest' = j
    BY <1>4 DEF ElementForest, ForestImage
  <1>6. HasForestFields(f) /\ Canonical(f.used)
    BY <1>4 DEF WireInv, BytesInv
  <1>7. CanInsertNoteBytes(f, commitment) /\ g = InsertNoteBytes(f, commitment, depth)
    BY <1>4 DEF WireDeposit
  <1>8. CanInsertNote(i, note) /\ j = InsertNote(i, note, depth)
    BY <1>1, <1>4, <1>6, <1>7, CanInsertBytes, InsertBytesImage
  <1>9. /\ PoolOfElements!CanInsertNote(ElementForest, note)
        /\ ElementForest' = PoolOfElements!InsertNote(ElementForest, note, params.treeDepth)
    BY <1>4, <1>5, <1>8, SameInsertion
  <1>10. PoolOfElements!StoreAuditorData(note, data)
    BY <1>1, SameClimb DEF WireDeposit, StoreAuditorData, PoolOfElements!StoreAuditorData
  <1>11. UNCHANGED <<ElementRegistration, params, vks, Elements(spent)>>
    BY DEF WireDeposit, ElementRegistration
  <1>12. /\ amount.value > 0 /\ wallet[denom] >= amount.value
         /\ wallet' = [wallet EXCEPT ![denom] = @ - amount.value]
         /\ escrow' = [escrow EXCEPT ![denom] = @ + amount.value]
    BY DEF WireDeposit
  <1> QED
    BY <1>2, <1>3, <1>9, <1>10, <1>11, <1>12 DEF PoolOfElements!Deposit

(* The notes of a plan. *)
LEMMA PlanNotes ==
    ASSUME NEW plan, IsPlan(plan)
    PROVE  /\ plan.inputs \in NotePair /\ plan.outputs \in NotePair
           /\ \A notes \in {plan.inputs, plan.outputs} :
                 /\ DOMAIN notes = {1, 2} /\ notes[1] \in Commitment \cup {Zero}
                 /\ notes[2] \in Commitment \cup {Zero}
                 /\ notes = <<notes[1], notes[2]>>
  <1>1. plan.inputs \in NotePair /\ plan.outputs \in NotePair
    BY DEF IsPlan, Pairs, NotePair
  <1> QED
    BY <1>1 DEF NotePair

(* Behind ValidateBasic the bytes that are skipped are the dummies, and     *)
(* what the loop marks for the first n inputs are their nullifiers.         *)
LEMMA DummiesAreZero ==
    ASSUME NEW msg, NEW plan, WireMessage(msg), IsPlan(plan), IsWriting(msg, plan),
           ValidTransact(msg), WireTransactProven(msg)
    PROVE  /\ \A i \in 1..2 : /\ IsZeroBytes(msg.nullifiers[i]) <=> plan.inputs[i] = Zero
                              /\ IsZeroBytes(msg.outputs[i]) <=> plan.outputs[i] = Zero
                              /\ Element(msg.outputs[i]) = plan.outputs[i]
           /\ \A i \in 1..2 : plan.inputs[i] # Zero =>
                 NullifierKey(msg.nullifiers[i]) = FieldBytes(NullifierOf(plan.inputs[i]))
  <1>1. \A e : IsZeroBytes(FieldBytes(e)) => e = Zero
    BY DEF IsZeroBytes, FieldBytes
  <1>2. \A b : IsZeroBytes(b) => Element(b) = Zero
    BY DEF IsZeroBytes, FieldBytes, Element
  <1>3. ASSUME NEW i \in 1..2
        PROVE  /\ IsZeroBytes(msg.nullifiers[i]) <=> plan.inputs[i] = Zero
               /\ plan.inputs[i] # Zero =>
                    NullifierKey(msg.nullifiers[i]) = FieldBytes(NullifierOf(plan.inputs[i]))
    <2>1. Element(msg.nullifiers[i]) = NullifierElement(plan.inputs[i])
      BY <1>3 DEF WireTransactProven, IsWriting
    <2>2. plan.inputs[i] \in Commitment \cup {Zero}
      BY <1>3, PlanNotes
    <2>3. Element(msg.nullifiers[i]) = Zero <=> plan.inputs[i] = Zero
      BY <2>1, <2>2, NullifierAssumption DEF NullifierElement
    <2>4. ByteString(msg.nullifiers[i]) /\ ValidFieldBytes(msg.nullifiers[i])
      BY <1>3 DEF WireMessage, ValidTransact
    <2> QED
      BY <1>2, <2>1, <2>3, <2>4, OneZero
      DEF NullifierElement, NullifierKey, CanonicalFieldBytes
  <1>4. ASSUME NEW i \in 1..2
        PROVE  /\ IsZeroBytes(msg.outputs[i]) <=> plan.outputs[i] = Zero
               /\ Element(msg.outputs[i]) = plan.outputs[i]
    <2>1. Element(msg.outputs[i]) = plan.outputs[i]
      BY <1>4 DEF IsWriting, ElementsOf
    <2>2. ByteString(msg.outputs[i]) /\ ValidFieldBytes(msg.outputs[i])
      BY <1>4 DEF WireMessage, ValidTransact
    <2> QED
      BY <1>2, <2>1, <2>2, OneZero
  <1> QED
    BY <1>3, <1>4

(* The nullifiers of a pair, and of its first note. *)
LEMMA PairNullifiers ==
    ASSUME NEW notes \in NotePair
    PROVE  /\ PoolOfElements!NullifiersOf(SubSeq(notes, 1, 0)) = {}
           /\ PoolOfElements!NullifiersOf(SubSeq(notes, 1, 1))
                = {NullifierOf(notes[i]) : i \in {j \in 1..1 : notes[j] # Zero}}
           /\ PoolOfElements!NullifiersOf(notes)
                = {NullifierOf(notes[i]) : i \in {j \in 1..2 : notes[j] # Zero}}
  <1>1. \A s : PoolOfElements!NullifiersOf(s)
                 = {NullifierOf(s[i]) : i \in {j \in DOMAIN s : s[j] # Zero}}
    BY DEF PoolOfElements!NullifiersOf, PoolOfElements!Real, PoolOfElements!NullifierOf, NullifierOf
  <1>2. DOMAIN notes = 1..2
    BY DEF NotePair
  <1>3. PICK none, one : none = SubSeq(notes, 1, 0) /\ one = SubSeq(notes, 1, 1)
    OBVIOUS
  <1>4. none = <<>>
    BY <1>3 DEF NotePair
  <1>5. one = [i \in 1..1 |-> notes[i]]
    BY <1>3 DEF NotePair
  <1>6. PoolOfElements!NullifiersOf(none) = {}
    BY <1>1, <1>4
  <1>7. DOMAIN one = 1..1 /\ one[1] = notes[1]
    BY <1>5
  <1>8. PoolOfElements!NullifiersOf(one)
          = {NullifierOf(notes[i]) : i \in {j \in 1..1 : notes[j] # Zero}}
    BY <1>1, <1>7
  <1> QED
    BY <1>1, <1>2, <1>3, <1>6, <1>8

(* The nullifiers marked for the first n inputs, as elements. *)
LEMMA MarkedElements ==
    ASSUME NEW msg, NEW plan, WireMessage(msg), IsPlan(plan), IsWriting(msg, plan),
           ValidTransact(msg), WireTransactProven(msg), NEW n \in 0..2
    PROVE  /\ Canonical(Marked(msg, n))
           /\ Elements(Marked(msg, n))
                = {NullifierOf(plan.inputs[i]) : i \in {j \in 1..n : plan.inputs[j] # Zero}}
  <1>1. \A i \in 1..n : i \in 1..2
    OBVIOUS
  <1>2. {j \in 1..n : ~ IsZeroBytes(msg.nullifiers[j])} = {j \in 1..n : plan.inputs[j] # Zero}
    BY <1>1, DummiesAreZero
  <1>3. PICK real : real = {j \in 1..n : plan.inputs[j] # Zero}
    OBVIOUS
  <1>4. \A i \in real : NullifierKey(msg.nullifiers[i]) = FieldBytes(NullifierOf(plan.inputs[i]))
    BY <1>1, <1>3, DummiesAreZero
  <1>5. Marked(msg, n) = {FieldBytes(NullifierOf(plan.inputs[i])) : i \in real}
    BY <1>2, <1>3, <1>4 DEF Marked
  <1>6. Canonical(Marked(msg, n))
    BY <1>5, ReadBack DEF Canonical
  <1>7. Elements(Marked(msg, n)) = {NullifierOf(plan.inputs[i]) : i \in real}
    BY <1>5, ReadBack DEF Elements
  <1> QED
    BY <1>3, <1>6, <1>7

(* Sets of elements add up as their keys do. *)
LEMMA ElementsAdd ==
    \A a, b : Elements(a \cup b) = Elements(a) \cup Elements(b)
  BY DEF Elements

(* The inputs: what passes the check on keys passes NixPool's on elements,  *)
(* and what is marked is the same.                                          *)
LEMMA InputsMap ==
    ASSUME WireInv, NEW msg, NEW plan, WireMessage(msg), IsPlan(plan), IsWriting(msg, plan),
           ValidTransact(msg), WireTransact(msg)
    PROVE  /\ PoolOfElements!InputsAccepted(plan)
           /\ Elements(spent)' = Elements(spent) \cup PoolOfElements!NullifiersOf(plan.inputs)
  <1>1. PICK inputs \in NotePair : inputs = plan.inputs /\ DOMAIN inputs = {1, 2}
    BY PlanNotes
  <1>2. WireTransactProven(msg) /\ WireInputsAccepted(msg) /\ spent' = spent \cup Marked(msg, 2)
    BY DEF WireTransact
  <1>3. ASSUME NEW i \in {1, 2}, inputs[i] # Zero
        PROVE  /\ PoolOfElements!NullifierOf(inputs[i]) \notin PoolOfElements!SpentBefore(plan, i)
               /\ PoolOfElements!IsValidRootAnyTree(ElementForest, plan.roots[i])
    <2>1. PICK keys : keys = spent \cup Marked(msg, i - 1)
      OBVIOUS
    <2>2. i - 1 \in 0..2 /\ i \in 1..2
      OBVIOUS
    <2>3. ~ IsZeroBytes(msg.nullifiers[i])
      BY <1>1, <1>2, <1>3, <2>2, DummiesAreZero
    <2>4. ~ IsNullifierSpent(keys, msg.nullifiers[i]) /\ ValidRoot(msg.roots[i])
      BY <1>2, <2>1, <2>2, <2>3 DEF WireInputsAccepted
    <2>5. FieldBytes(NullifierOf(inputs[i])) \notin keys
      BY <1>1, <1>2, <1>3, <2>2, <2>4, DummiesAreZero DEF IsNullifierSpent
    <2>6. /\ Canonical(Marked(msg, i - 1))
          /\ Elements(Marked(msg, i - 1))
               = {NullifierOf(inputs[k]) : k \in {j \in 1..(i - 1) : inputs[j] # Zero}}
      BY <1>1, <1>2, <2>2, MarkedElements
    <2>7. Canonical(keys)
      BY <2>1, <2>6 DEF WireInv, Canonical
    <2>8. NullifierOf(inputs[i]) \notin Elements(keys)
      BY <2>5, <2>7, KeysAreElements
    <2>9. PoolOfElements!NullifiersOf(SubSeq(inputs, 1, i - 1)) = Elements(Marked(msg, i - 1))
      <3>1. CASE i = 1
        BY <2>6, <3>1, PairNullifiers
      <3>2. CASE i = 2
        BY <2>6, <3>2, PairNullifiers
      <3> QED
        BY <3>1, <3>2
    <2>10. PoolOfElements!SpentBefore(plan, i) = Elements(keys)
      BY <1>1, <2>1, <2>9, ElementsAdd DEF PoolOfElements!SpentBefore
    <2>11. PoolOfElements!NullifierOf(inputs[i]) = NullifierOf(inputs[i])
      BY DEF PoolOfElements!NullifierOf, NullifierOf
    <2>12. ElementForest.rootIndex = forest.rootIndex
      BY ImageFields DEF WireInv, BytesInv, ElementForest, ForestImage
    <2>13. Element(msg.roots[i]) = plan.roots[i]
      BY <2>2 DEF IsWriting, ElementsOf
    <2>14. PoolOfElements!IsValidRootAnyTree(ElementForest, plan.roots[i])
      BY <2>4, <2>12, <2>13, ReadBack, SameClimb
      DEF ValidRoot, RootIndexKey, CanonicalFieldBytes, IsValidRootAnyTree, RootRefCount,
          EmptyRoot, PoolOfElements!IsValidRootAnyTree, PoolOfElements!RootRefCount,
          PoolOfElements!EmptyRoot
    <2> QED
      BY <2>8, <2>10, <2>11, <2>14
  <1>4. PoolOfElements!InputsAccepted(plan)
    BY <1>1, <1>3 DEF PoolOfElements!InputsAccepted, PoolOfElements!Real
  <1>5. Elements(Marked(msg, 2)) = PoolOfElements!NullifiersOf(plan.inputs)
    BY <1>1, <1>2, MarkedElements, PairNullifiers
  <1>6. Elements(spent') = Elements(spent) \cup Elements(Marked(msg, 2))
    BY <1>2, ElementsAdd
  <1> QED
    BY <1>4, <1>5, <1>6 DEF Elements

(* One output. *)
LEMMA OutputMaps ==
    ASSUME NEW f, BytesInv(f), NEW b, CanInsertOutputBytes(f, b), NEW note,
           Element(b) = note, note \in Commitment \cup {Zero}, IsZeroBytes(b) <=> note = Zero
    PROVE  /\ BytesInv(InsertOutputBytes(f, b))
           /\ PoolOfElements!CanInsertOutput(ForestImage(f), note)
           /\ ForestImage(InsertOutputBytes(f, b))
                = PoolOfElements!InsertOutput(ForestImage(f), note)
  <1>1. PICK g, i, j, depth : /\ g = InsertOutputBytes(f, b) /\ depth = params.treeDepth
                              /\ i = ForestImage(f) /\ j = ForestImage(g)
    OBVIOUS
  <1>2. BytesInv(g) /\ j = (IF note = Zero THEN i ELSE InsertNote(i, note, depth))
    BY <1>1, OutputBytesKeep
  <1>3. j = PoolOfElements!InsertOutput(i, note)
    BY <1>1, <1>2, SameInsertion DEF PoolOfElements!InsertOutput
  <1>4. note # Zero => CanInsertNote(i, note)
    BY <1>1, CanInsertBytes DEF CanInsertOutputBytes, BytesInv
  <1>5. PoolOfElements!CanInsertOutput(i, note)
    BY <1>4, SameInsertion DEF PoolOfElements!CanInsertOutput
  <1> QED
    BY <1>1, <1>2, <1>3, <1>5

(* Both outputs, the second into the forest that the first one left. *)
LEMMA OutputsMap ==
    ASSUME WireInv, NEW msg, NEW plan, WireMessage(msg), IsPlan(plan), IsWriting(msg, plan),
           ValidTransact(msg), WireTransact(msg)
    PROVE  /\ PoolOfElements!OutputsAccepted(plan)
           /\ ElementForest' = PoolOfElements!InsertOutput(
                                  PoolOfElements!AfterFirstOutput(plan), plan.outputs[2])
  <1>1. PICK a, b, c, d : /\ a = msg.outputs[1] /\ b = msg.outputs[2]
                          /\ c = plan.outputs[1] /\ d = plan.outputs[2]
    OBVIOUS
  <1>2. /\ Element(a) = c /\ c \in Commitment \cup {Zero} /\ (IsZeroBytes(a) <=> c = Zero)
        /\ Element(b) = d /\ d \in Commitment \cup {Zero} /\ (IsZeroBytes(b) <=> d = Zero)
    <2>1. 1 \in 1..2 /\ 2 \in 1..2 /\ WireTransactProven(msg)
      BY DEF WireTransact
    <2> QED
      BY <1>1, <2>1, PlanNotes, DummiesAreZero
  <1>3. PICK f, m, g : f = forest /\ m = InsertOutputBytes(f, a) /\ g = forest'
    OBVIOUS
  <1>4. /\ CanInsertOutputBytes(f, a) /\ CanInsertOutputBytes(m, b)
        /\ g = InsertOutputBytes(m, b) /\ BytesInv(f)
    BY <1>1, <1>3 DEF WireTransact, WireOutputsAccepted, WireInv
  <1>5. /\ BytesInv(m) /\ PoolOfElements!CanInsertOutput(ForestImage(f), c)
        /\ ForestImage(m) = PoolOfElements!InsertOutput(ForestImage(f), c)
    BY <1>2, <1>3, <1>4, OutputMaps
  <1>6. /\ PoolOfElements!CanInsertOutput(ForestImage(m), d)
        /\ ForestImage(g) = PoolOfElements!InsertOutput(ForestImage(m), d)
    BY <1>2, <1>4, <1>5, OutputMaps
  <1>7. ElementForest = ForestImage(f) /\ ElementForest' = ForestImage(g)
    BY <1>3 DEF ElementForest, ForestImage
  <1>8. PoolOfElements!AfterFirstOutput(plan) = ForestImage(m)
    BY <1>1, <1>5, <1>7 DEF PoolOfElements!AfterFirstOutput
  <1> QED
    BY <1>1, <1>5, <1>6, <1>7, <1>8 DEF PoolOfElements!OutputsAccepted

(* The amounts: behind ValidateBasic what is paid out is what was proved.   *)
LEMMA AmountsMap ==
    ASSUME NEW msg, NEW plan, IsPlan(plan), IsWriting(msg, plan),
           ValidTransact(msg), WireTransactProven(msg)
    PROVE  /\ msg.withdraw.value = plan.withdraw /\ msg.fee.value = plan.fee
           /\ plan.withdraw \in 0..MaxAmount /\ plan.fee \in 0..MaxAmount
           /\ Paid(msg.withdraw) = plan.withdraw /\ Paid(msg.fee) = plan.fee
  <1>1. PICK w, p, v, q : /\ w = msg.withdraw.value /\ p = msg.fee.value
                          /\ v = plan.withdraw /\ q = plan.fee
    OBVIOUS
  <1>2. /\ w \in 0..MaxAmount /\ p \in 0..MaxAmount
        /\ Paid(msg.withdraw) = w /\ Paid(msg.fee) = p
    <2>1. ASSUME NEW amount, ValidAmount(amount)
          PROVE  amount.value \in 0..MaxAmount /\ Paid(amount) = amount.value
      <3>1. 0 \in 0..MaxAmount
        BY SupplyAssumption
      <3>2. CASE amount \in NothingPaid
        <4>1. PICK text : amount = [text |-> text, value |-> 0]
          BY <3>2, Zenon DEF NothingPaid
        <4>2. amount.value = 0
          BY <4>1
        <4>3. Paid(amount) = 0
          BY <3>2 DEF Paid
        <4> QED
          BY <3>1, <4>2, <4>3
      <3>3. CASE amount \notin NothingPaid
        BY <2>1, <3>3 DEF ValidAmount, Paid
      <3> QED
        BY <3>2, <3>3
    <2> QED
      BY <1>1, <2>1 DEF ValidTransact
  <1>3. FieldElement(w) = w /\ FieldElement(p) = p
    BY <1>2, SupplyAssumption DEF FieldElement
  <1>4. ValueOf(msg.inputs) = ValueOf(ElementsOf(msg.outputs)) + w + p
    BY <1>1, <1>3 DEF WireTransactProven, TransactProven, TransactStatement, Assembled
  <1>5. ValueOf(plan.inputs) = ValueOf(plan.outputs) + v + q
    BY <1>1 DEF IsPlan, TransactStatement
  <1>6. ValueOf(plan.outputs) \in Int
    BY PlanNotes, NoteAssumption DEF ValueOf, Worth
  <1>7. v \in Int /\ q \in Int
    <2>1. ValueOf(plan.inputs) \in Int
      BY PlanNotes, NoteAssumption DEF ValueOf, Worth
    <2>2. q \in Int
      BY <1>1, <1>6, <2>1 DEF IsPlan
    <2>3. v = ValueOf(plan.inputs) - ValueOf(plan.outputs) - q
      BY <1>1 DEF IsPlan
    <2> QED
      BY <1>6, <2>1, <2>2, <2>3
  <1>8. w + p = v + q
    BY <1>2, <1>4, <1>5, <1>6, <1>7, SupplyAssumption DEF IsWriting
  <1>9. w = v \/ p = q
    BY <1>1 DEF IsWriting
  <1>10. w = v /\ p = q
    BY <1>2, <1>7, <1>8, <1>9, SupplyAssumption
  <1> QED
    BY <1>1, <1>2, <1>10

(* Transacting bytes is transacting the plan. *)
LEMMA TransactMaps ==
    ASSUME WireInv, NEW msg, NEW plan, WireMessage(msg), IsPlan(plan), IsWriting(msg, plan),
           ValidTransact(msg), WireTransact(msg)
    PROVE  /\ PoolOfElements!Transact(plan)
           /\ plan.regRoot = PoolOfElements!GetRegMerkleRoot(ElementRegistration)
  <1>1. /\ msg.withdraw.value = plan.withdraw /\ msg.fee.value = plan.fee
        /\ plan.withdraw \in 0..MaxAmount /\ plan.fee \in 0..MaxAmount
        /\ Paid(msg.withdraw) = plan.withdraw /\ Paid(msg.fee) = plan.fee
    BY AmountsMap DEF WireTransact
  <1>2. PoolOfElements!ValidAmounts(plan)
    BY <1>1 DEF PoolOfElements!ValidAmounts
  <1>3. plan.regRoot = PoolOfElements!GetRegMerkleRoot(ElementRegistration)
    <2>1. msg.regRoot = FieldBytes(GetRegMerkleRoot(registration))
      BY DEF WireTransact
    <2>2. plan.regRoot = GetRegMerkleRoot(registration)
      BY <2>1, ReadBack DEF IsWriting
    <2>3. ElementRegistration.root = registration.root
      BY RegImageFields DEF WireInv, RegBytesInv, ElementRegistration, RegImage
    <2>4. GetRegMerkleRoot(ElementRegistration) = GetRegMerkleRoot(registration)
      BY <2>3 DEF GetRegMerkleRoot
    <2> QED
      BY <2>2, <2>4, SameRegistering
  <1>4. PoolOfElements!IsValidRegRoot(ElementRegistration, plan.regRoot)
    BY <1>3 DEF PoolOfElements!IsValidRegRoot
  <1>5. PoolOfElements!TransactProven(plan)
    BY SameStatement
    DEF WireTransact, WireTransactProven, TransactProven, IsPlan, PoolOfElements!TransactProven,
        PoolOfElements!ChainBindingSet, ChainBindingSet, PoolOfElements!HasVK, HasVK
  <1>6. PICK pay : pay = plan.withdraw + plan.fee
    OBVIOUS
  <1>7. /\ PoolOfElements!Payout(plan) = pay /\ Payout(WirePayout(msg)) = pay
        /\ WirePayout(msg).denom = plan.denom /\ msg.denom = plan.denom
    BY <1>1, <1>6 DEF PoolOfElements!Payout, Payout, WirePayout, IsWriting
  <1>8. PoolOfElements!PayoutAccepted(plan)
    BY <1>7
    DEF WireTransact, PoolOfElements!PayoutAccepted, PayoutAccepted,
        PoolOfElements!CheckDenom, CheckDenom
  <1>9. PoolOfElements!CanTransact(plan)
    BY <1>2, <1>4, <1>5, <1>8, InputsMap, OutputsMap DEF PoolOfElements!CanTransact
  <1>10. /\ escrow' = [escrow EXCEPT ![plan.denom] = @ - PoolOfElements!Payout(plan)]
         /\ wallet' = [wallet EXCEPT ![plan.denom] = @ + PoolOfElements!Payout(plan)]
         /\ UNCHANGED <<ElementRegistration, params, vks, auditorData, txHash>>
    BY <1>7 DEF WireTransact, ElementRegistration
  <1>11. PoolOfElements!Transact(plan)
    BY <1>9, <1>10, InputsMap, OutputsMap DEF PoolOfElements!Transact
  <1> QED
    BY <1>3, <1>11

(* The root a real input names is one that NixPool's messages try too: the  *)
(* handler takes no other.                                                  *)
LEMMA RootsAreTried ==
    ASSUME WireInv, NEW msg, NEW plan, WireMessage(msg), IsPlan(plan), IsWriting(msg, plan),
           ValidTransact(msg), WireTransact(msg), NEW i \in {1, 2}
    PROVE  plan.roots[i] \in PoolOfElements!RootsFor(plan.inputs[i])
  <1>1. PICK note, root : note = plan.inputs[i] /\ root = plan.roots[i]
    OBVIOUS
  <1>2. root \in RootsFor(note)
    BY <1>1 DEF IsPlan
  <1>3. PoolOfElements!EmptyRoot = EmptyRoot
    BY SameClimb DEF PoolOfElements!EmptyRoot, EmptyRoot
  <1>4. CASE note = Zero
    BY <1>1, <1>2, <1>3, <1>4 DEF RootsFor, PoolOfElements!RootsFor
  <1>5. CASE note # Zero
    <2>1. PoolOfElements!IsValidRootAnyTree(ElementForest, root)
      <3>1. i \in PoolOfElements!Real(plan.inputs)
        BY <1>1, <1>5, PlanNotes DEF PoolOfElements!Real
      <3> QED
        BY <1>1, <3>1, InputsMap DEF PoolOfElements!InputsAccepted
    <2>2. root \in PoolOfElements!CandidateRoots
      BY <2>1
      DEF PoolOfElements!IsValidRootAnyTree, PoolOfElements!RootRefCount,
          PoolOfElements!Get, PoolOfElements!CandidateRoots
    <2>3. note \in PoolOfElements!LeavesUnder(root, CircuitDepth)
      BY <1>2, <1>5, SameStatement DEF RootsFor, RootsOver
    <2> QED
      BY <1>1, <1>5, <2>2, <2>3 DEF PoolOfElements!RootsFor, PoolOfElements!RootsOver
  <1> QED
    BY <1>4, <1>5

(* So the plan is one of the messages that NixPool tries. *)
LEMMA PlanIsTried ==
    ASSUME WireInv, NEW msg, NEW plan, WireMessage(msg), IsPlan(plan), IsWriting(msg, plan),
           ValidTransact(msg), WireTransact(msg)
    PROVE  PoolOfElements!TransactAny
  <1>1. PICK denom, inputs, outputs, root1, root2, regRoot, surplus, fee :
          /\ denom = plan.denom /\ inputs = plan.inputs /\ outputs = plan.outputs
          /\ root1 = plan.roots[1] /\ root2 = plan.roots[2] /\ regRoot = plan.regRoot
          /\ surplus = ValueOf(plan.inputs) - ValueOf(plan.outputs) /\ fee = plan.fee
    OBVIOUS
  <1>2. plan = [inputs |-> inputs, roots |-> <<root1, root2>>, outputs |-> outputs,
                regRoot |-> regRoot, denom |-> denom, withdraw |-> surplus - fee, fee |-> fee]
    BY <1>1 DEF IsPlan
  <1>3. denom \in Denom /\ fee \in 0..surplus
    BY <1>1 DEF IsPlan
  <1>4. \A d : PoolOfElements!Pairs(d) = Pairs(d)
    BY DEF PoolOfElements!Pairs, Pairs
  <1>5. inputs \in PoolOfElements!Pairs(denom) /\ outputs \in PoolOfElements!Pairs(denom)
    BY <1>1, <1>4 DEF IsPlan
  <1>6. /\ root1 \in PoolOfElements!RootsFor(inputs[1])
        /\ root2 \in PoolOfElements!RootsFor(inputs[2])
    BY <1>1, RootsAreTried
  <1>7. regRoot \in PoolOfElements!CandidateRegRoots
    BY <1>1, TransactMaps DEF PoolOfElements!CandidateRegRoots
  <1>8. surplus = PoolOfElements!ValueOf(inputs) - PoolOfElements!ValueOf(outputs)
    BY <1>1, SameStatement
  <1>9. PoolOfElements!Transact(
          [inputs |-> inputs, roots |-> <<root1, root2>>, outputs |-> outputs,
           regRoot |-> regRoot, denom |-> denom, withdraw |-> surplus - fee, fee |-> fee])
    BY <1>2, TransactMaps
  <1> QED
    BY <1>3, <1>5, <1>6, <1>7, <1>8, <1>9 DEF PoolOfElements!TransactAny

-----------------------------------------------------------------------------
(***************************************************************************)
(* The coins: the handlers move them, so nobody has more than there are,   *)
(* whatever a message's texts say.                                         *)
(***************************************************************************)

Coins ==
    /\ escrow \in [Denom -> Nat] /\ wallet \in [Denom -> Nat]
    /\ \A denom \in Denom : escrow[denom] + wallet[denom] = Supply[denom]

(* Genesis leaves them with their owners. *)
LEMMA WireInitCoins == WireInit => Coins
  BY SupplyAssumption DEF WireInit, Init, Coins

(* A deposit moves coins that the depositor has. *)
LEMMA WireDepositCoins ==
    ASSUME Coins, NEW commitment, NEW chunk, NEW amount, amount.value \in Int,
           NEW denom \in Denom, NEW key, NEW data,
           WireDeposit(commitment, chunk, amount, denom, key, data)
    PROVE  Coins' /\ amount.value \in 1..Supply[denom]
  <1>1. PICK v : v = amount.value /\ v \in Int
    OBVIOUS
  <1>2. /\ v > 0 /\ wallet[denom] >= v
        /\ wallet' = [wallet EXCEPT ![denom] = @ - v]
        /\ escrow' = [escrow EXCEPT ![denom] = @ + v]
    BY <1>1 DEF WireDeposit
  <1>3. /\ wallet[denom] \in Nat /\ escrow[denom] \in Nat
        /\ escrow[denom] + wallet[denom] = Supply[denom]
    BY DEF Coins
  <1>4. v \in 1..Supply[denom]
    BY <1>1, <1>2, <1>3, SupplyAssumption
  <1>5. Coins'
    BY <1>1, <1>2, <1>3 DEF Coins
  <1> QED
    BY <1>1, <1>4, <1>5

(* A transact pays out nothing negative, and no more than the pool has. *)
LEMMA WireTransactCoins ==
    ASSUME Coins, NEW msg, msg.denom \in Denom, msg.withdraw.value \in Int,
           msg.fee.value \in Int, WireTransact(msg)
    PROVE  Coins'
  <1>1. ASSUME NEW amount, amount.value \in Int, Payable(amount) PROVE Paid(amount) \in Nat
    BY <1>1 DEF Payable, Paid
  <1>2. PICK pay, denom : pay = Payout(WirePayout(msg)) /\ denom = msg.denom
    OBVIOUS
  <1>3. pay \in Nat
    BY <1>1, <1>2 DEF WireTransact, WirePayout, Payout
  <1>4. WirePayout(msg).denom = denom
    BY <1>2 DEF WirePayout
  <1>5. /\ pay > 0 => escrow[denom] >= pay
        /\ escrow' = [escrow EXCEPT ![denom] = @ - pay]
        /\ wallet' = [wallet EXCEPT ![denom] = @ + pay]
    BY <1>2, <1>4 DEF WireTransact, PayoutAccepted
  <1>6. /\ wallet[denom] \in Nat /\ escrow[denom] \in Nat
        /\ escrow[denom] + wallet[denom] = Supply[denom]
    BY <1>2 DEF Coins
  <1> QED
    BY <1>2, <1>3, <1>5, <1>6 DEF Coins

(* Every step. *)
LEMMA WireCoinsNext == Coins /\ [WireNext]_wireVars => Coins'
  <1> SUFFICES ASSUME Coins, [WireNext]_wireVars PROVE Coins'
    OBVIOUS
  <1>1. CASE UNCHANGED wireVars
    BY <1>1 DEF wireVars, vars, Coins
  <1>2. ASSUME NEW commitment, NEW chunk, NEW chainId, NEW key, NEW data,
               WireRegister(commitment, chunk, chainId, key, data)
        PROVE  Coins'
    BY <1>2 DEF WireRegister, Coins
  <1>3. ASSUME NEW denom \in Denom, NEW commitment, NEW chunk,
               NEW amount \in UNION {AmountTexts(v) : v \in 1..Supply[denom]},
               NEW key, NEW data, WireDeposit(commitment, chunk, amount, denom, key, data)
        PROVE  Coins'
    <2>1. amount.value \in Int
      BY AmountsAreNumbers
    <2> QED
      BY <1>3, <2>1, WireDepositCoins
  <1>4. CASE WireTransactAny
    <2>1. PICK msg, plan : /\ WireMessage(msg) /\ WireTransact(msg)
                           /\ IsPlan(plan) /\ IsWriting(msg, plan)
      BY <1>4, TriedArePlanned
    <2> QED
      BY <2>1, WireTransactCoins DEF WireMessage, IsWriting
  <1> QED
    BY <1>1, <1>2, <1>3, <1>4 DEF WireNext, WireStep

-----------------------------------------------------------------------------
(* Behind ValidateBasic a step over bytes is one over elements. *)
LEMMA BytesStepMaps ==
    ASSUME WireInv, Coins, validateFirst, WireNext
    PROVE  PoolOfElements!Next
  <1>1. ASSUME NEW identity \in Identity, NEW commitment \in Encodings(identity),
               NEW chunk \in Encodings(identity), NEW chainId \in ChainIds,
               NEW key \in Keys, NEW data \in AttachData,
               WireRegister(commitment, chunk, chainId, key, data)
        PROVE  PoolOfElements!Next
    <2>1. Element(chunk) = identity
      BY EncodedIsBytes DEF Encodings
    <2>2. PoolOfElements!Register(identity, chainId, key, data)
      BY <1>1, <2>1, RegisterMaps
    <2> QED
      BY <2>2 DEF PoolOfElements!Next
  <1>2. ASSUME NEW note \in Commitment, NEW denom \in Denom,
               NEW commitment \in Encodings(note), NEW chunk \in Encodings(note),
               NEW amount \in UNION {AmountTexts(v) : v \in 1..Supply[denom]},
               NEW key \in Keys, NEW data \in AttachData,
               WireDeposit(commitment, chunk, amount, denom, key, data)
        PROVE  PoolOfElements!Next
    <2>1. Element(chunk) = note
      BY EncodedIsBytes DEF Encodings
    <2>2. amount.value \in Int
      BY AmountsAreNumbers
    <2>3. amount.value \in 1..Supply[denom]
      BY <1>2, <2>2, WireDepositCoins
    <2>4. PoolOfElements!Deposit(note, amount.value, denom, key, data)
      BY <1>2, <2>1, DepositMaps
    <2> QED
      BY <2>3, <2>4 DEF PoolOfElements!Next
  <1>3. CASE WireTransactAny
    <2>1. PICK msg, plan : /\ WireMessage(msg) /\ WireTransact(msg)
                           /\ IsPlan(plan) /\ IsWriting(msg, plan)
      BY <1>3, TriedArePlanned
    <2>2. ValidTransact(msg)
      BY <2>1 DEF WireTransact
    <2>3. PoolOfElements!TransactAny
      BY <2>1, <2>2, PlanIsTried
    <2> QED
      BY <2>3 DEF PoolOfElements!Next
  <1> QED
    BY <1>1, <1>2, <1>3 DEF WireNext, WireStep

(* Behind ValidateBasic bytes and texts add nothing: each handler's step,   *)
(* with the store's bytes and keys read as elements, is a step of NixPool.  *)
THEOREM BytesImplementPool == WireSpec => WireImplementsPool
  <1>1. WireInv /\ Coins /\ [WireNext]_wireVars
          => [validateFirst => [PoolOfElements!Next]_PoolOfElements!vars]_wireVars
    BY BytesStepMaps
  <1> QED
    BY <1>1, WireInitInv, WireInvNext, WireInitCoins, WireCoinsNext, PTL
    DEF WireSpec, WireImplementsPool

-----------------------------------------------------------------------------
(***************************************************************************)
(* Value without ValidateBasic.  A leaf may then hold 0 and 0 may be       *)
(* marked as spent, but what a note's element is, the keys decide.         *)
(***************************************************************************)

WireLedgerInv ==
    /\ WireInv /\ Coins
    /\ params.treeDepth \in Nat
    /\ ForestGrown(ForestImage(forest))
    /\ \A note \in Commitment :
          NullifierOf(note) \in Elements(spent) => note \in ForestImage(forest).used

(* The inputs are notes of the forest that no one has spent, each one once; *)
(* of the notes, they are what is spent afterwards.                         *)
LEMMA BytesInputs ==
    ASSUME WireLedgerInv, NEW msg, NEW plan, WireMessage(msg), IsPlan(plan),
           IsWriting(msg, plan), WireTransact(msg)
    PROVE  /\ NotesIn(plan.inputs) \subseteq Commitment
           /\ \A note \in NotesIn(plan.inputs) :
                 /\ note \in ForestImage(forest).used /\ NullifierOf(note) \notin Elements(spent)
                 /\ NoteDenom[note] = plan.denom
           /\ Distinct(plan.inputs)
           /\ \A note \in Commitment :
                 NullifierOf(note) \in Elements(spent') <=>
                    NullifierOf(note) \in Elements(spent) \/ note \in NotesIn(plan.inputs)
  <1>1. PICK inputs \in NotePair : inputs = plan.inputs /\ DOMAIN inputs = {1, 2}
    BY PlanNotes
  <1>2. NotesIn(inputs) = {inputs[1], inputs[2]} \ {Zero} /\ NotesIn(inputs) \subseteq Commitment
    BY PairNotes
  <1>3. ASSUME NEW i \in {1, 2}
        PROVE  /\ inputs[i] # Zero => /\ ~ IsZeroBytes(msg.nullifiers[i])
                                      /\ Element(msg.nullifiers[i]) = NullifierOf(inputs[i])
                                      /\ NullifierKey(msg.nullifiers[i])
                                           = FieldBytes(NullifierOf(inputs[i]))
               /\ inputs[i] = Zero => Element(msg.nullifiers[i]) = Zero
    <2>1. i \in 1..2
      OBVIOUS
    <2>2. Element(msg.nullifiers[i]) = NullifierElement(inputs[i])
      BY <1>1, <2>1 DEF WireTransact, WireTransactProven, IsWriting
    <2>3. inputs[i] # Zero => inputs[i] \in Commitment
      BY <1>2
    <2>4. IsZeroBytes(msg.nullifiers[i]) => Element(msg.nullifiers[i]) = Zero
      BY ReadBack DEF IsZeroBytes
    <2> QED
      BY <2>2, <2>3, <2>4, NullifierAssumption
      DEF NullifierElement, NullifierKey, CanonicalFieldBytes
  <1>4. PICK f : f = ForestImage(forest)
    OBVIOUS
  <1>5. /\ Exact(f) /\ ForestGrown(f) /\ f.rootIndex = forest.rootIndex /\ CircuitDepth \in Nat
    BY <1>4, ImageFields, CircuitDepthAssumption DEF WireLedgerInv, WireInv, BytesInv
  <1>6. ASSUME NEW i \in {1, 2}, inputs[i] # Zero
        PROVE  /\ inputs[i] \in f.used /\ NullifierOf(inputs[i]) \notin Elements(spent)
               /\ NoteDenom[inputs[i]] = plan.denom
               /\ FieldBytes(NullifierOf(inputs[i])) \notin Marked(msg, i - 1)
    <2>1. i \in 1..2 /\ i \in Real(inputs)
      BY <1>1, <1>6 DEF Real
    <2>2. /\ ~ IsNullifierSpent(spent \cup Marked(msg, i - 1), msg.nullifiers[i])
          /\ ValidRoot(msg.roots[i])
      BY <1>3, <1>6, <2>1 DEF WireTransact, WireInputsAccepted
    <2>3. FieldBytes(NullifierOf(inputs[i])) \notin spent \cup Marked(msg, i - 1)
      BY <1>3, <1>6, <2>2 DEF IsNullifierSpent
    <2>4. NullifierOf(inputs[i]) \notin Elements(spent)
      BY <2>3, KeysAreElements DEF WireLedgerInv, WireInv
    <2>5. Element(msg.roots[i]) = plan.roots[i]
      BY <2>1 DEF IsWriting, ElementsOf
    <2>6. IsValidRootAnyTree(f, plan.roots[i])
      BY <1>5, <2>2, <2>5, ReadBack
      DEF ValidRoot, RootIndexKey, CanonicalFieldBytes, IsValidRootAnyTree
    <2>7. LeavesUnder(plan.roots[i], CircuitDepth) \subseteq f.used \cup {Zero}
      BY <1>5, <2>6, AcceptedRootLeaves
    <2>8. /\ inputs[i] \in LeavesUnder(plan.roots[i], CircuitDepth)
          /\ NoteDenom[inputs[i]] = plan.denom
      BY <1>1, <2>1 DEF IsPlan, TransactStatement
    <2> QED
      BY <1>6, <2>3, <2>4, <2>7, <2>8
  <1>7. Distinct(inputs)
    <2> SUFFICES ASSUME inputs[1] = inputs[2], inputs[1] # Zero PROVE FALSE
      BY DEF Distinct
    <2>1. NullifierKey(msg.nullifiers[1]) \in Marked(msg, 1)
      <3>1. 1 \in {j \in 1..1 : ~ IsZeroBytes(msg.nullifiers[j])}
        BY <1>3
      <3> QED
        BY <3>1 DEF Marked
    <2>2. FieldBytes(NullifierOf(inputs[2])) \notin Marked(msg, 2 - 1)
      BY <1>6
    <2>3. 2 - 1 = 1
      OBVIOUS
    <2> QED
      BY <1>3, <2>1, <2>2, <2>3
  <1>8. spent' = spent \cup Marked(msg, 2)
    BY DEF WireTransact
  <1>9. ASSUME NEW note \in Commitment
        PROVE  NullifierOf(note) \in Elements(Marked(msg, 2)) <=> note \in NotesIn(inputs)
    <2>1. NullifierOf(note) # Zero /\ note # Zero
      BY NullifierAssumption, ZeroAssumption
    <2>2. ASSUME note \in NotesIn(inputs) PROVE NullifierOf(note) \in Elements(Marked(msg, 2))
      <3>1. PICK i \in {1, 2} : note = inputs[i] /\ inputs[i] # Zero
        BY <1>2, <2>2
      <3>2. i \in {j \in 1..2 : ~ IsZeroBytes(msg.nullifiers[j])}
        BY <1>3, <3>1
      <3>3. FieldBytes(NullifierOf(note)) \in Marked(msg, 2)
        BY <1>3, <3>1, <3>2 DEF Marked
      <3> QED
        BY <3>3, ReadBack DEF Elements
    <2>3. ASSUME NullifierOf(note) \in Elements(Marked(msg, 2)) PROVE note \in NotesIn(inputs)
      <3>1. PICK key \in Marked(msg, 2) : Element(key) = NullifierOf(note)
        BY <2>3 DEF Elements
      <3>2. PICK i \in 1..2 : key = NullifierKey(msg.nullifiers[i])
        BY DEF Marked
      <3>3. i \in {1, 2} /\ Element(msg.nullifiers[i]) = NullifierOf(note)
        BY <3>1, <3>2, ReadBack DEF NullifierKey, CanonicalFieldBytes
      <3>4. inputs[i] # Zero /\ NullifierOf(inputs[i]) = NullifierOf(note)
        BY <1>3, <2>1, <3>3
      <3>5. inputs[i] = note
        BY <3>4, OneNullifierEach
      <3> QED
        BY <1>2, <2>1, <3>3, <3>5
    <2> QED
      BY <2>2, <2>3
  <1> QED
    BY <1>1, <1>2, <1>4, <1>6, <1>7, <1>8, <1>9, ElementsAdd

(* One output: of the notes, what the forest gains is the output. *)
LEMMA BytesOutput ==
    ASSUME NEW f, BytesInv(f), ForestGrown(ForestImage(f)), NEW b, CanInsertOutputBytes(f, b),
           NEW note \in Commitment \cup {Zero}, Element(b) = note,
           params.treeDepth \in Nat, NEW g, g = InsertOutputBytes(f, b)
    PROVE  /\ BytesInv(g) /\ ForestGrown(ForestImage(g))
           /\ ForestImage(f).used \subseteq ForestImage(g).used
           /\ ForestImage(g).used \cap Commitment
                = (ForestImage(f).used \cap Commitment) \cup ({note} \ {Zero})
           /\ note # Zero => note \notin ForestImage(f).used
  <1>1. PICK i, j, depth : /\ i = ForestImage(f) /\ j = ForestImage(g)
                           /\ depth = params.treeDepth /\ depth \in Nat
    OBVIOUS
  <1>2. BytesInv(g) /\ j = (IF IsZeroBytes(b) THEN i ELSE InsertNote(i, note, depth))
    BY <1>1, OutputBytesKeep
  <1>3. CASE IsZeroBytes(b)
    <2>1. note = Zero
      BY <1>3, ReadBack DEF IsZeroBytes
    <2> QED
      BY <1>1, <1>2, <1>3, <2>1
  <1>4. CASE ~ IsZeroBytes(b)
    <2>1. Good(i) /\ ForestGrown(i) /\ j = InsertNote(i, note, depth)
      BY <1>1, <1>2, <1>4 DEF BytesInv
    <2>2. j.used = i.used \cup {note}
      BY <2>1, InsertNoteLeaf
    <2>3. ForestGrown(j)
      BY <1>1, <2>1, InsertNoteGrows
    <2>4. note \notin i.used
      BY <1>1, <1>4, CanInsertBytes DEF CanInsertOutputBytes, BytesInv, CanInsertNote
    <2>5. j.used \cap Commitment = (i.used \cap Commitment) \cup ({note} \ {Zero})
      BY <2>2, ZeroAssumption
    <2> QED
      BY <1>1, <1>2, <2>2, <2>3, <2>4, <2>5
  <1> QED
    BY <1>3, <1>4

(* The outputs are new to the forest, and of the notes are what it gains. *)
LEMMA BytesOutputs ==
    ASSUME WireLedgerInv, NEW msg, NEW plan, WireMessage(msg), IsPlan(plan),
           IsWriting(msg, plan), WireTransact(msg)
    PROVE  /\ NotesIn(plan.outputs) \subseteq Commitment
           /\ NotesIn(plan.outputs) \cap ForestImage(forest).used = {}
           /\ Distinct(plan.outputs)
           /\ \A note \in NotesIn(plan.outputs) : NoteDenom[note] = plan.denom
           /\ ForestGrown(ForestImage(forest'))
           /\ ForestImage(forest).used \subseteq ForestImage(forest').used
           /\ ForestImage(forest').used \cap Commitment
                = (ForestImage(forest).used \cap Commitment) \cup NotesIn(plan.outputs)
  <1>1. PICK outputs \in NotePair : outputs = plan.outputs /\ DOMAIN outputs = {1, 2}
    BY PlanNotes
  <1>2. NotesIn(outputs) = {outputs[1], outputs[2]} \ {Zero} /\ NotesIn(outputs) \subseteq Commitment
    BY PairNotes
  <1>3. PICK a \in Commitment \cup {Zero}, b \in Commitment \cup {Zero} :
          a = outputs[1] /\ b = outputs[2]
    BY DEF NotePair
  <1>4. PICK c, d : /\ c = msg.outputs[1] /\ Element(c) = a
                    /\ d = msg.outputs[2] /\ Element(d) = b
    BY <1>1, <1>3 DEF IsWriting, ElementsOf
  <1>5. PICK f, m, g : /\ f = forest /\ m = InsertOutputBytes(f, c)
                       /\ g = InsertOutputBytes(m, d)
    OBVIOUS
  <1>6. /\ g = forest' /\ BytesInv(f) /\ ForestGrown(ForestImage(f)) /\ params.treeDepth \in Nat
        /\ CanInsertOutputBytes(f, c) /\ CanInsertOutputBytes(m, d)
    BY <1>4, <1>5 DEF WireTransact, WireOutputsAccepted, WireLedgerInv, WireInv
  <1>7. PICK i, j, k : i = ForestImage(f) /\ j = ForestImage(m) /\ k = ForestImage(g)
    OBVIOUS
  <1>8. /\ BytesInv(m) /\ ForestGrown(j) /\ i.used \subseteq j.used
        /\ j.used \cap Commitment = (i.used \cap Commitment) \cup ({a} \ {Zero})
        /\ a # Zero => a \notin i.used
    BY <1>4, <1>5, <1>6, <1>7, BytesOutput
  <1>9. /\ ForestGrown(k) /\ j.used \subseteq k.used
        /\ k.used \cap Commitment = (j.used \cap Commitment) \cup ({b} \ {Zero})
        /\ b # Zero => b \notin j.used
    <2>1. /\ BytesInv(m) /\ ForestGrown(ForestImage(m)) /\ CanInsertOutputBytes(m, d)
          /\ Element(d) = b /\ params.treeDepth \in Nat /\ g = InsertOutputBytes(m, d)
      BY <1>4, <1>5, <1>6, <1>7, <1>8
    <2> QED
      BY <1>7, <2>1, BytesOutput
  <1>10. NotesIn(outputs) \cap i.used = {} /\ Distinct(outputs)
    <2>1. a # Zero => a \in j.used
      BY <1>8
    <2>2. Distinct(outputs)
      BY <1>3, <1>9, <2>1 DEF Distinct
    <2> QED
      BY <1>2, <1>3, <1>8, <1>9, <2>2
  <1>11. k.used \cap Commitment = (i.used \cap Commitment) \cup NotesIn(outputs)
    BY <1>2, <1>3, <1>8, <1>9
  <1>12. \A note \in NotesIn(outputs) : NoteDenom[note] = plan.denom
    BY <1>1 DEF NotesIn, IsPlan, TransactStatement
  <1> QED
    BY <1>1, <1>2, <1>5, <1>6, <1>7, <1>8, <1>9, <1>10, <1>11, <1>12

(* The ledger over elements counts and adds up as the other one does. *)
LEMMA SameLedger ==
    ASSUME NEW S, NEW denom
    PROVE  /\ LedgerByElement!Amount(S) = Total(NoteValue, S)
           /\ LedgerByElement!AtMostTwo(S, denom) = Ledger!AtMostTwo(S, denom)
  <1>1. LedgerByElement!Amount(S) = Total(NoteValue, S)
    BY DEF LedgerByElement!Amount, LedgerByElement!MapThenSumSet, LedgerByElement!MapThenFoldSet,
           Total, MapThenSumSet, MapThenFoldSet
  <1>2. \A T : LedgerByElement!Cardinality(T) = Ledger!Cardinality(T)
    BY DEF LedgerByElement!Cardinality, Ledger!Cardinality
  <1>3. \A k, T : LedgerByElement!kSubset(k, T) = Ledger!kSubset(k, T)
    BY <1>2 DEF LedgerByElement!kSubset, Ledger!kSubset
  <1> QED
    BY <1>1, <1>3 DEF LedgerByElement!AtMostTwo, Ledger!AtMostTwo

(* The mapped state, by the used markers. *)
LEMMA WireMappedState ==
    ASSUME WireLedgerInv
    PROVE  /\ ElementNotes = ForestImage(forest).used \cap Commitment
           /\ LedgerByElement!Fresh = Commitment \ ForestImage(forest).used
  <1>1. PICK f, i : f = forest /\ i = ForestImage(f)
    OBVIOUS
  <1>2. i.leaf = ElementsOf(f.leaf) /\ UniqueLeaves(i)
    BY <1>1, ImageFields DEF WireLedgerInv, WireInv, BytesInv
  <1>3. ElementNotes = i.used \cap Commitment
    <2>1. {Element(f.leaf[key]) : key \in DOMAIN f.leaf} = {i.leaf[key] : key \in DOMAIN i.leaf}
      BY <1>2 DEF ElementsOf
    <2>2. {i.leaf[key] : key \in DOMAIN i.leaf} = i.used
      BY <1>2 DEF UniqueLeaves
    <2> QED
      BY <1>1, <2>1, <2>2 DEF ElementNotes
  <1>4. \A note \in Commitment : NullifierOf(note) \in Elements(spent) => note \in i.used
    BY <1>1 DEF WireLedgerInv
  <1>5. LedgerByElement!Fresh = Commitment \ i.used
    BY <1>3, <1>4 DEF LedgerByElement!Fresh
  <1> QED
    BY <1>1, <1>3, <1>5

(* And after a step. *)
LEMMA WireMappedNext ==
    ASSUME WireLedgerInv'
    PROVE  ElementNotes' = ForestImage(forest').used \cap Commitment
  <1>1. PICK f, i : f = forest' /\ i = ForestImage(f)
    OBVIOUS
  <1>2. i.leaf = ElementsOf(f.leaf) /\ UniqueLeaves(i)
    BY <1>1, ImageFields DEF WireLedgerInv, WireInv, BytesInv
  <1>3. {Element(f.leaf[key]) : key \in DOMAIN f.leaf} = {i.leaf[key] : key \in DOMAIN i.leaf}
    BY <1>2 DEF ElementsOf
  <1>4. {i.leaf[key] : key \in DOMAIN i.leaf} = i.used
    BY <1>2 DEF UniqueLeaves
  <1> QED
    BY <1>1, <1>3, <1>4 DEF ElementNotes

(* Genesis. *)
LEMMA WireLedgerInit == WireInit => WireLedgerInv /\ LedgerByElement!Init
  <1> SUFFICES ASSUME WireInit PROVE WireLedgerInv /\ LedgerByElement!Init
    OBVIOUS
  <1>1. forest = EmptyForest /\ spent = {} /\ escrow = [d \in Denom |-> 0]
        /\ params = GenesisParams
    BY DEF WireInit, Init
  <1>2. params.treeDepth \in Nat
    BY <1>1, GenesisAssumption DEF ParamsType
  <1>3. Elements(spent) = {}
    BY <1>1 DEF Elements
  <1>4. ForestGrown(ForestImage(forest))
    <2>1. PICK e, i : e = EmptyForest /\ i = ForestImage(e)
      OBVIOUS
    <2>2. HasForestFields(e) /\ e.leaf = <<>> /\ e.used = {}
      BY <2>1 DEF EmptyForest, HasForestFields
    <2>3. ElementsOf(<<>>) = <<>> /\ Elements({}) = {}
      BY DEF ElementsOf, Elements
    <2>4. e = i
      BY <2>1, <2>2, <2>3, ImageIs
    <2> QED
      BY <1>1, <2>1, <2>4, EmptyForestGrown
  <1>5. WireLedgerInv
    BY <1>2, <1>3, <1>4, WireInitInv, WireInitCoins DEF WireLedgerInv
  <1>6. ElementNotes = {}
    BY <1>1 DEF ElementNotes, EmptyForest
  <1>7. LedgerByElement!Init
    BY <1>1, <1>3, <1>6 DEF LedgerByElement!Init
  <1> QED
    BY <1>5, <1>7

(* Registering moves no value. *)
LEMMA WireRegisterMovesNothing ==
    ASSUME NEW commitment, NEW chunk, NEW chainId, NEW key, NEW data,
           WireRegister(commitment, chunk, chainId, key, data)
    PROVE  UNCHANGED <<forest, spent, escrow, params>>
  BY DEF WireRegister

(* A deposit of bytes shields the note of their element. *)
LEMMA WireDepositShields ==
    ASSUME WireLedgerInv, WireInv', NEW note \in Commitment, NEW commitment, NEW chunk,
           Element(chunk) = note, NEW amount, amount.value \in Int, NEW denom \in Denom,
           NEW key, NEW data, WireDeposit(commitment, chunk, amount, denom, key, data)
    PROVE  WireLedgerInv' /\ note \in LedgerByElement!Fresh /\ LedgerByElement!Shield(note)
  <1>1. Element(commitment) = note
    BY ReadBack DEF WireDeposit, SameBytes
  <1>2. Coins' /\ amount.value \in 1..Supply[denom]
    BY WireDepositCoins DEF WireLedgerInv
  <1>3. amount.value = NoteValue[note] /\ denom = NoteDenom[note]
    <2>1. amount.value \in 1..(FieldModulus - 1)
      BY <1>2, SupplyAssumption
    <2>2. VerifyDepositPublicInputs(note, amount.value, denom, key)
      BY DEF WireDeposit
    <2> QED
      BY <2>1, <2>2, DepositedAmount
  <1>4. PICK f, g, i, j, depth : /\ f = forest /\ g = forest' /\ depth = params.treeDepth
                                 /\ i = ForestImage(f) /\ j = ForestImage(g)
    OBVIOUS
  <1>5. /\ BytesInv(f) /\ CanInsertNoteBytes(f, commitment)
        /\ g = InsertNoteBytes(f, commitment, depth) /\ depth \in Nat /\ ForestGrown(i)
    BY <1>4 DEF WireLedgerInv, WireInv, WireDeposit
  <1>6. j = InsertNote(i, note, depth) /\ Good(i) /\ CanInsertNote(i, note)
    BY <1>1, <1>4, <1>5, InsertBytesImage, CanInsertBytes DEF BytesInv
  <1>7. j.used = i.used \cup {note} /\ note \notin i.used /\ ForestGrown(j)
    BY <1>5, <1>6, InsertNoteLeaf, InsertNoteGrows DEF CanInsertNote
  <1>8. UNCHANGED <<spent, params>> /\ escrow' = [escrow EXCEPT ![denom] = @ + amount.value]
    BY DEF WireDeposit
  <1>9. WireLedgerInv'
    BY <1>2, <1>4, <1>7, <1>8 DEF WireLedgerInv
  <1>10. note \in LedgerByElement!Fresh /\ NullifierOf(note) \notin Elements(spent)
    BY <1>4, <1>7, WireMappedState DEF WireLedgerInv
  <1>11. ElementNotes' = ElementNotes \cup {note} /\ Elements(spent)' = Elements(spent)
    BY <1>4, <1>7, <1>8, <1>9, WireMappedState, WireMappedNext
  <1> QED
    BY <1>3, <1>8, <1>9, <1>10, <1>11 DEF LedgerByElement!Shield

(* A payout that is covered is what was proved: no amount in it wraps around *)
(* the field, since there are fewer coins than that.                         *)
LEMMA PayoutIsProved ==
    ASSUME Coins, NEW msg, msg.denom \in Denom, msg.withdraw.value \in Int,
           msg.fee.value \in Int, WireTransact(msg)
    PROVE  /\ Payout(WirePayout(msg)) \in Nat
           /\ ValueOf(msg.inputs)
                = ValueOf(ElementsOf(msg.outputs)) + FieldElement(msg.withdraw.value)
                    + FieldElement(msg.fee.value)
           /\ Payout(WirePayout(msg))
                = FieldElement(msg.withdraw.value) + FieldElement(msg.fee.value)
  <1>1. PICK w, p, v, q, pay, modulus :
          /\ w = Paid(msg.withdraw) /\ p = Paid(msg.fee)
          /\ v = msg.withdraw.value /\ q = msg.fee.value
          /\ pay = Payout(WirePayout(msg)) /\ modulus = FieldModulus
    OBVIOUS
  <1>2. pay = w + p
    BY <1>1 DEF WirePayout, Payout
  <1>3. ASSUME NEW amount, amount.value \in Int, Payable(amount)
        PROVE  Paid(amount) = amount.value /\ amount.value \in Nat
    <2>1. CASE amount \in NothingPaid
      <3>1. PICK text : amount = [text |-> text, value |-> 0]
        BY <2>1, Zenon DEF NothingPaid
      <3>2. amount.value = 0
        BY <3>1
      <3>3. Paid(amount) = 0
        BY <2>1 DEF Paid
      <3> QED
        BY <3>2, <3>3
    <2>2. CASE amount \notin NothingPaid
      <3>1. Paid(amount) = amount.value
        BY <2>2 DEF Paid
      <3>2. amount.value > 0
        BY <1>3, <2>2 DEF Payable
      <3> QED
        BY <1>3, <3>1, <3>2
    <2> QED
      BY <2>1, <2>2
  <1>4. w = v /\ v \in Nat /\ p = q /\ q \in Nat
    BY <1>1, <1>3 DEF WireTransact
  <1>5. pay \in Nat /\ v <= pay /\ q <= pay
    BY <1>2, <1>4
  <1>6. pay > 0 => pay <= escrow[msg.denom]
    <2>1. WirePayout(msg).denom = msg.denom
      BY DEF WirePayout
    <2>2. pay > 0 => escrow[msg.denom] >= pay
      BY <1>1, <2>1 DEF WireTransact, PayoutAccepted
    <2> QED
      BY <1>5, <2>2 DEF Coins
  <1>7. escrow[msg.denom] <= Supply[msg.denom]
    BY SupplyAssumption DEF Coins
  <1>8. modulus \in Nat /\ v < modulus /\ q < modulus
    <2>1. Supply[msg.denom] \in Nat /\ Supply[msg.denom] < modulus /\ modulus \in Nat
      BY <1>1, SupplyAssumption
    <2>2. escrow[msg.denom] \in Nat
      BY DEF Coins
    <2> QED
      BY <1>4, <1>5, <1>6, <1>7, <2>1, <2>2
  <1>9. v % modulus = v /\ q % modulus = q
    BY <1>4, <1>8
  <1>10. FieldElement(v) = v /\ FieldElement(q) = q
    BY <1>1, <1>9 DEF FieldElement
  <1>11. ValueOf(msg.inputs)
           = ValueOf(ElementsOf(msg.outputs)) + FieldElement(v) + FieldElement(q)
    BY <1>1 DEF WireTransact, WireTransactProven, TransactProven, TransactStatement, Assembled
  <1> QED
    BY <1>1, <1>2, <1>4, <1>5, <1>10, <1>11

(* A transact of bytes transfers the value of its plan. *)
LEMMA WireTransactTransfers ==
    ASSUME WireLedgerInv, WireInv', NEW msg, NEW plan, WireMessage(msg), IsPlan(plan),
           IsWriting(msg, plan), WireTransact(msg)
    PROVE  WireLedgerInv' /\ LedgerByElement!Next
  <1>1. PICK ins, outs, denom, surplus, i, j :
          /\ ins = NotesIn(plan.inputs) /\ outs = NotesIn(plan.outputs) /\ denom = plan.denom
          /\ surplus = ValueOf(plan.inputs) - ValueOf(plan.outputs)
          /\ i = ForestImage(forest) /\ j = ForestImage(forest')
    OBVIOUS
  <1>2. /\ ins \subseteq Commitment /\ Distinct(plan.inputs)
        /\ \A note \in ins : /\ note \in i.used /\ NullifierOf(note) \notin Elements(spent)
                             /\ NoteDenom[note] = denom
        /\ \A note \in Commitment :
              NullifierOf(note) \in Elements(spent') <=>
                 NullifierOf(note) \in Elements(spent) \/ note \in ins
    BY <1>1, BytesInputs
  <1>3. /\ outs \subseteq Commitment /\ outs \cap i.used = {} /\ Distinct(plan.outputs)
        /\ \A note \in outs : NoteDenom[note] = denom
        /\ ForestGrown(j) /\ i.used \subseteq j.used
        /\ j.used \cap Commitment = (i.used \cap Commitment) \cup outs
    BY <1>1, BytesOutputs
  <1>4. denom \in Denom /\ msg.denom = denom /\ UNCHANGED params
    BY <1>1 DEF IsPlan, IsWriting, WireTransact
  <1>5. Coins'
    BY <1>4, WireTransactCoins DEF WireLedgerInv, IsWriting
  <1>6. \A note \in Commitment : NullifierOf(note) \in Elements(spent) => note \in i.used
    BY <1>1 DEF WireLedgerInv
  <1>7. \A note \in Commitment : NullifierOf(note) \in Elements(spent') => note \in j.used
    BY <1>2, <1>3, <1>6
  <1>8. WireLedgerInv'
    BY <1>1, <1>3, <1>4, <1>5, <1>7 DEF WireLedgerInv, Elements
  <1>9. ElementNotes = i.used \cap Commitment /\ ElementNotes' = j.used \cap Commitment
    BY <1>1, <1>8, WireMappedState, WireMappedNext
  <1>10. LedgerByElement!Fresh = Commitment \ i.used
    BY <1>1, WireMappedState
  <1>11. PICK old, new : /\ old = {note \in ElementNotes : NullifierOf(note) \notin Elements(spent)}
                         /\ new = {note \in ElementNotes' : NullifierOf(note) \notin Elements(spent')}
    OBVIOUS
  <1>12. ins \subseteq old
    BY <1>2, <1>9, <1>11
  <1>13. ins \in LedgerByElement!AtMostTwo(old, denom)
    <2>1. ins \in Ledger!AtMostTwo(old, denom)
      BY <1>1, <1>2, <1>12, PlanNotes, PairIsAtMostTwo
    <2> QED
      BY <2>1, SameLedger
  <1>14. outs \in LedgerByElement!AtMostTwo(LedgerByElement!Fresh, denom)
    <2>1. PICK fresh : fresh = LedgerByElement!Fresh
      OBVIOUS
    <2>2. outs \subseteq fresh
      BY <1>3, <1>10, <2>1
    <2>3. outs \in Ledger!AtMostTwo(fresh, denom)
      BY <1>1, <1>3, <2>2, PlanNotes, PairIsAtMostTwo
    <2> QED
      BY <2>1, <2>3, SameLedger
  <1>15. new = (old \ ins) \cup outs
    <2>1. \A note \in outs : NullifierOf(note) \notin Elements(spent')
      BY <1>2, <1>3, <1>6
    <2>2. \A note \in Commitment : note \in j.used <=> note \in i.used \/ note \in outs
      BY <1>3
    <2> QED
      BY <1>2, <1>3, <1>9, <1>11, <2>1, <2>2
  <1>16. {note \in Commitment : NullifierOf(note) \in Elements(spent')}
           = {note \in Commitment : NullifierOf(note) \in Elements(spent)} \cup ins
    BY <1>2
  <1>17. /\ LedgerByElement!Amount(ins) = ValueOf(plan.inputs)
         /\ LedgerByElement!Amount(outs) = ValueOf(plan.outputs)
         /\ ValueOf(plan.inputs) \in Nat /\ ValueOf(plan.outputs) \in Nat
    BY <1>1, <1>2, <1>3, PlanNotes, PairWorth, SameLedger
  <1>18. PICK pay : pay = Payout(WirePayout(msg))
    OBVIOUS
  <1>19. pay \in Nat /\ ValueOf(plan.inputs) = ValueOf(plan.outputs) + pay
    <2>1. PICK w, q : w = FieldElement(msg.withdraw.value) /\ q = FieldElement(msg.fee.value)
      OBVIOUS
    <2>2. /\ pay \in Nat /\ pay = w + q
          /\ ValueOf(msg.inputs) = ValueOf(ElementsOf(msg.outputs)) + w + q
      BY <1>4, <1>18, <2>1, PayoutIsProved DEF WireLedgerInv, IsWriting
    <2>3. w \in Int /\ q \in Int
      BY <2>1, SupplyAssumption DEF FieldElement, IsWriting
    <2>4. msg.inputs = plan.inputs /\ ElementsOf(msg.outputs) = plan.outputs
      BY DEF IsWriting
    <2> QED
      BY <1>17, <2>2, <2>3, <2>4
  <1>20. surplus = pay /\ ValueOf(plan.outputs) <= ValueOf(plan.inputs)
    BY <1>1, <1>17, <1>19
  <1>21. escrow' = [escrow EXCEPT ![denom] = @ - (ValueOf(plan.inputs) - ValueOf(plan.outputs))]
    BY <1>1, <1>4, <1>18, <1>20 DEF WireTransact
  <1>22. LedgerByElement!Transfer(denom, ins, outs)
    BY <1>11, <1>15, <1>16, <1>17, <1>20, <1>21 DEF LedgerByElement!Transfer, Elements
  <1> QED
    BY <1>4, <1>8, <1>11, <1>13, <1>14, <1>22 DEF LedgerByElement!Next

(* Every step is one of the ledger's or leaves it as it is. *)
LEMMA WireLedgerNext ==
    WireLedgerInv /\ [WireNext]_wireVars
        => WireLedgerInv' /\ [LedgerByElement!Next]_(LedgerByElement!vars)
  <1> SUFFICES ASSUME WireLedgerInv, [WireNext]_wireVars
               PROVE  /\ WireLedgerInv'
                      /\ LedgerByElement!Next \/ UNCHANGED LedgerByElement!vars
    OBVIOUS
  <1>1. WireInv' /\ Coins'
    BY WireInvNext, WireCoinsNext DEF WireLedgerInv
  <1>2. CASE UNCHANGED <<forest, spent, escrow, params>>
    <2>1. WireLedgerInv'
      BY <1>1, <1>2 DEF WireLedgerInv
    <2>2. UNCHANGED LedgerByElement!vars
      BY <1>2 DEF LedgerByElement!vars, ElementNotes, Elements
    <2> QED
      BY <2>1, <2>2
  <1>3. CASE UNCHANGED wireVars
    BY <1>2, <1>3 DEF wireVars, vars
  <1>4. ASSUME NEW commitment, NEW chunk, NEW chainId, NEW key, NEW data,
               WireRegister(commitment, chunk, chainId, key, data)
        PROVE  WireLedgerInv' /\ (LedgerByElement!Next \/ UNCHANGED LedgerByElement!vars)
    BY <1>2, <1>4, WireRegisterMovesNothing
  <1>5. ASSUME NEW note \in Commitment, NEW denom \in Denom,
               NEW commitment \in Encodings(note), NEW chunk \in Encodings(note),
               NEW amount \in UNION {AmountTexts(v) : v \in 1..Supply[denom]},
               NEW key, NEW data, WireDeposit(commitment, chunk, amount, denom, key, data)
        PROVE  WireLedgerInv' /\ LedgerByElement!Next
    <2>1. Element(chunk) = note
      BY EncodedIsBytes DEF Encodings
    <2>2. amount.value \in Int
      BY AmountsAreNumbers
    <2>3. WireLedgerInv' /\ note \in LedgerByElement!Fresh /\ LedgerByElement!Shield(note)
      BY <1>1, <1>5, <2>1, <2>2, WireDepositShields
    <2> QED
      BY <2>3 DEF LedgerByElement!Next
  <1>6. CASE WireTransactAny
    <2>1. PICK msg, plan : /\ WireMessage(msg) /\ WireTransact(msg)
                           /\ IsPlan(plan) /\ IsWriting(msg, plan)
      BY <1>6, TriedArePlanned
    <2> QED
      BY <1>1, <2>1, WireTransactTransfers
  <1> QED
    BY <1>3, <1>4, <1>5, <1>6 DEF WireNext, WireStep

(* Whatever bytes and texts the messages carry, and with no ValidateBasic in *)
(* front of the handlers, value moves as the ledger allows: no encoding      *)
(* spends a note again, and no amount is paid that was not proved.           *)
THEOREM BytesImplementLedger == WireSpec => WireImplementsLedger
  BY WireLedgerInit, WireLedgerNext, PTL
  DEF WireSpec, WireImplementsLedger, LedgerByElement!Spec
=============================================================================
