-------------------------- MODULE ForestStoreProofs -------------------------
(***************************************************************************)
(* Lemmas about the forest's operators, for the proofs of the modules that *)
(* compose them into steps.  First, induction over the natural numbers, in *)
(* a form that the provers can instantiate: over sets of numbers, not      *)
(* operators.  Then one tree, for every depth and every list of leaves: a  *)
(* frontier that holds the left siblings of the next leaf's path gives the *)
(* Merkle root of the list with that leaf, and the frontier written on the *)
(* way is right for the leaf after it.  Then the store: an insertion at    *)
(* any depth and a rebuild keep its shape, the exact reverse index, the    *)
(* uniqueness of its leaves, the Merkle roots at one depth and the rings   *)
(* of recent roots.                                                        *)
(***************************************************************************)
EXTENDS ForestStore, Integers, FiniteSetTheorems, TLAPS

(* Induction over the natural numbers: the numbers a claim holds of are all *)
(* of them if 0 is one and each one's successor is.  If n were the only     *)
(* exception up to n, the successors of those below it would be fewer than  *)
(* they are.                                                                *)
LEMMA NumberInduction ==
    ASSUME NEW G, 0 \in G, \A n \in Nat : n \in G => n + 1 \in G
    PROVE  \A n \in Nat : n \in G
  <1> SUFFICES ASSUME NEW n \in Nat, n \notin G PROVE FALSE
    OBVIOUS
  <1> DEFINE S == {m \in 0..n : m \in G}
             next == [m \in S |-> m + 1]
  <1>1. IsFiniteSet(S) /\ 0 \in S
    <2>1. IsFiniteSet(0..n)
      BY FS_Interval
    <2> QED
      BY <2>1, FS_Subset
  <1>2. /\ IsFiniteSet(S \ {0})
        /\ Cardinality(S) \in Nat /\ Cardinality(S \ {0}) = Cardinality(S) - 1
    BY <1>1, FS_RemoveElement, FS_CardinalityType
  <1>3. next \in [S -> S \ {0}]
    <2> SUFFICES ASSUME NEW m \in S PROVE m + 1 \in S \ {0}
      OBVIOUS
    <2>1. m \in Nat /\ m <= n /\ m \in G /\ m # n
      OBVIOUS
    <2> QED
      BY <2>1
  <1>4. Cardinality(S \ {0}) < Cardinality(S)
    BY <1>2
  <1>5. PICK a, b \in S : a # b /\ next[a] = next[b]
    <2> HIDE DEF S, next
    <2> QED
      BY <1>1, <1>2, <1>3, <1>4, FS_PigeonHole
  <1>6. a + 1 = b + 1 /\ a \in Nat /\ b \in Nat
    BY <1>5
  <1> QED
    BY <1>5, <1>6

(* A set of natural numbers that has an element has a least one: otherwise *)
(* every number is below all of its elements.                              *)
LEMMA LeastNatural ==
    ASSUME NEW T, T \subseteq Nat, T # {}
    PROVE  \E n \in T : \A m \in T : n <= m
  <1> SUFFICES ASSUME \A n \in T : \E m \in T : ~ (n <= m) PROVE FALSE
    OBVIOUS
  <1> DEFINE G == {n \in Nat : \A m \in T : n <= m}
  <1>1. 0 \in G
    OBVIOUS
  <1>2. ASSUME NEW n \in Nat, n \in G PROVE n + 1 \in G
    <2>1. n \notin T
      BY <1>2
    <2> SUFFICES ASSUME NEW m \in T PROVE n + 1 <= m
      OBVIOUS
    <2>2. n <= m /\ n # m /\ m \in Nat
      BY <1>2, <2>1
    <2> QED
      BY <2>2
  <1>3. \A n \in Nat : n \in G
    <2> HIDE DEF G
    <2> QED
      BY <1>1, <1>2, NumberInduction
  <1>4. PICK t \in T : t \in Nat
    OBVIOUS
  <1>5. t + 1 \in G
    BY <1>3, <1>4
  <1> QED
    BY <1>4, <1>5

-----------------------------------------------------------------------------
(***************************************************************************)
(* The recursive functions satisfy the equations that define them: each    *)
(* equation has a solution, found one level at a time.                     *)
(***************************************************************************)

IsWidth(w, n) == \A level \in 0..n : w[level] = IF level = 0 THEN 1 ELSE 2 * w[level - 1]

(* A power of two for every level. *)
LEMMA WidthExists == \E w : w = [level \in Nat |-> IF level = 0 THEN 1 ELSE 2 * w[level - 1]]
  <1> DEFINE G == {n \in Nat : \E w : IsWidth(w, n)}
  <1>1. 0 \in G
    <2>1. IsWidth([level \in 0..0 |-> 1], 0)
      BY DEF IsWidth
    <2> QED
      BY <2>1
  <1>2. ASSUME NEW n \in Nat, n \in G PROVE n + 1 \in G
    <2>1. PICK w : IsWidth(w, n)
      BY <1>2
    <2>2. PICK v : v = [level \in 0..(n + 1) |-> IF level = 0 THEN 1 ELSE 2 * w[level - 1]]
      OBVIOUS
    <2>3. \A level \in 0..n : v[level] = w[level]
      BY <2>1, <2>2 DEF IsWidth
    <2>4. \A level \in 0..(n + 1) : v[level] = IF level = 0 THEN 1 ELSE 2 * v[level - 1]
      <3> TAKE level \in 0..(n + 1)
      <3>1. level # 0 => level - 1 \in 0..n
        OBVIOUS
      <3> QED
        BY <2>2, <2>3, <3>1
    <2>5. IsWidth(v, n + 1)
      BY <2>4 DEF IsWidth
    <2> QED
      BY <2>5
  <1>3. \A n \in Nat : \E w : IsWidth(w, n)
    <2>1. \A n \in Nat : n \in G
      <3> HIDE DEF G
      <3> QED
        BY <1>1, <1>2, NumberInduction
    <2> QED
      BY <2>1
  <1>4. PICK some : some = [n \in Nat |-> CHOOSE w : IsWidth(w, n)]
    OBVIOUS
  <1>5. \A n \in Nat : \A level \in 0..n :
          some[n][level] = IF level = 0 THEN 1 ELSE 2 * some[n][level - 1]
    BY <1>3, <1>4 DEF IsWidth
  <1>6. \A l \in Nat : \A m \in Nat : m >= l => some[m][l] = some[l][l]
    <2> DEFINE A == {l \in Nat : \A m \in Nat : m >= l => some[m][l] = some[l][l]}
    <2>1. 0 \in A
      BY <1>5
    <2>2. ASSUME NEW l \in Nat, l \in A PROVE l + 1 \in A
      <3> SUFFICES ASSUME NEW m \in Nat, m >= l + 1
                   PROVE  some[m][l + 1] = some[l + 1][l + 1]
        OBVIOUS
      <3>1. some[m][l] = some[l][l] /\ some[l + 1][l] = some[l][l]
        BY <2>2
      <3>2. some[m][l + 1] = 2 * some[m][l]
        BY <1>5
      <3>3. some[l + 1][l + 1] = 2 * some[l + 1][l]
        BY <1>5
      <3> QED
        BY <3>1, <3>2, <3>3
    <2>3. \A l \in Nat : l \in A
      <3> HIDE DEF A
      <3> QED
        BY <2>1, <2>2, NumberInduction
    <2> QED
      BY <2>3
  <1>7. \A n \in Nat : some[n][n] = IF n = 0 THEN 1 ELSE 2 * some[n - 1][n - 1]
    BY <1>5, <1>6
  <1> WITNESS [n \in Nat |-> some[n][n]]
  <1> QED
    BY <1>7

(* Width doubles from level to level. *)
LEMMA WidthEquation ==
    /\ Width[0] = 1
    /\ \A level \in Nat : Width[level + 1] = 2 * Width[level]
    /\ \A level \in Nat : Width[level] \in Nat \ {0}
  <1>1. Width = [level \in Nat |-> IF level = 0 THEN 1 ELSE 2 * Width[level - 1]]
    BY WidthExists DEF Width
  <1>2. Width[0] = 1
    BY <1>1
  <1>3. \A level \in Nat : Width[level + 1] = 2 * Width[level]
    BY <1>1
  <1>4. \A level \in Nat : Width[level] \in Nat \ {0}
    <2> DEFINE A == {l \in Nat : Width[l] \in Nat \ {0}}
    <2>1. 0 \in A
      BY <1>2
    <2>2. ASSUME NEW l \in Nat, l \in A PROVE l + 1 \in A
      BY <1>3, <2>2
    <2>3. \A l \in Nat : l \in A
      <3> HIDE DEF A
      <3> QED
        BY <2>1, <2>2, NumberInduction
    <2> QED
      BY <2>3
  <1> QED
    BY <1>2, <1>3, <1>4

IsZeroHash(z, n) ==
    \A level \in 0..n :
        z[level] = IF level = 0 THEN Leaf(Zero) ELSE Hash2(z[level - 1], z[level - 1])

(* An empty subtree of every height. *)
LEMMA ZeroHashExists ==
    \E z : z = [level \in Nat |-> IF level = 0 THEN Leaf(Zero)
                                  ELSE Hash2(z[level - 1], z[level - 1])]
  <1> DEFINE G == {n \in Nat : \E z : IsZeroHash(z, n)}
  <1>1. 0 \in G
    <2>1. IsZeroHash([level \in 0..0 |-> Leaf(Zero)], 0)
      BY DEF IsZeroHash
    <2> QED
      BY <2>1
  <1>2. ASSUME NEW n \in Nat, n \in G PROVE n + 1 \in G
    <2>1. PICK z : IsZeroHash(z, n)
      BY <1>2
    <2>2. PICK v : v = [level \in 0..(n + 1) |-> IF level = 0 THEN Leaf(Zero)
                                                 ELSE Hash2(z[level - 1], z[level - 1])]
      OBVIOUS
    <2>3. \A level \in 0..n : v[level] = z[level]
      BY <2>1, <2>2 DEF IsZeroHash
    <2>4. \A level \in 0..(n + 1) :
            v[level] = IF level = 0 THEN Leaf(Zero) ELSE Hash2(v[level - 1], v[level - 1])
      <3> TAKE level \in 0..(n + 1)
      <3>1. level # 0 => level - 1 \in 0..n
        OBVIOUS
      <3> QED
        BY <2>2, <2>3, <3>1
    <2>5. IsZeroHash(v, n + 1)
      BY <2>4 DEF IsZeroHash
    <2> QED
      BY <2>5
  <1>3. \A n \in Nat : \E z : IsZeroHash(z, n)
    <2>1. \A n \in Nat : n \in G
      <3> HIDE DEF G
      <3> QED
        BY <1>1, <1>2, NumberInduction
    <2> QED
      BY <2>1
  <1>4. PICK some : some = [n \in Nat |-> CHOOSE z : IsZeroHash(z, n)]
    OBVIOUS
  <1>5. \A n \in Nat : \A level \in 0..n :
          some[n][level] = IF level = 0 THEN Leaf(Zero)
                           ELSE Hash2(some[n][level - 1], some[n][level - 1])
    BY <1>3, <1>4 DEF IsZeroHash
  <1>6. \A l \in Nat : \A m \in Nat : m >= l => some[m][l] = some[l][l]
    <2> DEFINE A == {l \in Nat : \A m \in Nat : m >= l => some[m][l] = some[l][l]}
    <2>1. 0 \in A
      BY <1>5
    <2>2. ASSUME NEW l \in Nat, l \in A PROVE l + 1 \in A
      <3> SUFFICES ASSUME NEW m \in Nat, m >= l + 1
                   PROVE  some[m][l + 1] = some[l + 1][l + 1]
        OBVIOUS
      <3>1. some[m][l] = some[l][l] /\ some[l + 1][l] = some[l][l]
        BY <2>2
      <3>2. some[m][l + 1] = Hash2(some[m][l], some[m][l])
        BY <1>5
      <3>3. some[l + 1][l + 1] = Hash2(some[l + 1][l], some[l + 1][l])
        BY <1>5
      <3> QED
        BY <3>1, <3>2, <3>3
    <2>3. \A l \in Nat : l \in A
      <3> HIDE DEF A
      <3> QED
        BY <2>1, <2>2, NumberInduction
    <2> QED
      BY <2>3
  <1>7. \A n \in Nat : some[n][n] = IF n = 0 THEN Leaf(Zero)
                                    ELSE Hash2(some[n - 1][n - 1], some[n - 1][n - 1])
    BY <1>5, <1>6
  <1> WITNESS [n \in Nat |-> some[n][n]]
  <1> QED
    BY <1>7

(* An empty subtree is an empty leaf or two empty subtrees. *)
LEMMA ZeroHashEquation ==
    /\ ZeroHash[0] = Leaf(Zero)
    /\ \A level \in Nat : ZeroHash[level + 1] = Hash2(ZeroHash[level], ZeroHash[level])
  <1>1. ZeroHash = [level \in Nat |-> IF level = 0 THEN Leaf(Zero)
                                      ELSE Hash2(ZeroHash[level - 1], ZeroHash[level - 1])]
    BY ZeroHashExists DEF ZeroHash
  <1> QED
    BY <1>1

IsPath(node, frontier, leaf, index, n) ==
    node = [level \in 0..n |->
              IF level = 0 THEN Leaf(leaf)
              ELSE IF GoesLeft(index, level - 1)
                   THEN Hash2(node[level - 1], ZeroHash[level - 1])
                   ELSE Hash2(LeftSibling(frontier, level - 1), node[level - 1])]

(* The climb passes a node at every level. *)
LEMMA PathExists ==
    ASSUME NEW frontier, NEW leaf, NEW index, NEW depth \in Nat
    PROVE  \E node : IsPath(node, frontier, leaf, index, depth)
  <1> DEFINE G == {n \in Nat : \E node : IsPath(node, frontier, leaf, index, n)}
  <1>1. 0 \in G
    <2>1. IsPath([level \in 0..0 |-> Leaf(leaf)], frontier, leaf, index, 0)
      BY DEF IsPath
    <2> QED
      BY <2>1
  <1>2. ASSUME NEW n \in Nat, n \in G PROVE n + 1 \in G
    <2>1. PICK node : IsPath(node, frontier, leaf, index, n)
      BY <1>2
    <2>2. PICK v : v = [level \in 0..(n + 1) |->
                          IF level = 0 THEN Leaf(leaf)
                          ELSE IF GoesLeft(index, level - 1)
                               THEN Hash2(node[level - 1], ZeroHash[level - 1])
                               ELSE Hash2(LeftSibling(frontier, level - 1), node[level - 1])]
      OBVIOUS
    <2>3. \A level \in 0..n : v[level] = node[level]
      BY <2>1, <2>2 DEF IsPath
    <2>4. \A level \in 0..(n + 1) :
            v[level] = IF level = 0 THEN Leaf(leaf)
                       ELSE IF GoesLeft(index, level - 1)
                            THEN Hash2(v[level - 1], ZeroHash[level - 1])
                            ELSE Hash2(LeftSibling(frontier, level - 1), v[level - 1])
      <3> TAKE level \in 0..(n + 1)
      <3>1. level # 0 => level - 1 \in 0..n
        OBVIOUS
      <3> QED
        BY <2>2, <2>3, <3>1
    <2>5. IsPath(v, frontier, leaf, index, n + 1)
      BY <2>2, <2>4 DEF IsPath
    <2> QED
      BY <2>5
  <1>3. \A n \in Nat : n \in G
    <2> HIDE DEF G
    <2> QED
      BY <1>1, <1>2, NumberInduction
  <1> QED
    BY <1>3

(* What the climb hashes, level by level. *)
LEMMA PathEquation ==
    ASSUME NEW frontier, NEW leaf, NEW index, NEW depth \in Nat,
           NEW path, path = Path(frontier, leaf, index, depth)
    PROVE  /\ path[0] = Leaf(leaf)
           /\ \A l \in 0..(depth - 1) :
                path[l + 1] = IF GoesLeft(index, l)
                              THEN Hash2(path[l], ZeroHash[l])
                              ELSE Hash2(LeftSibling(frontier, l), path[l])
  <1>1. IsPath(path, frontier, leaf, index, depth)
    <2>1. path = CHOOSE node : IsPath(node, frontier, leaf, index, depth)
      BY DEF Path, IsPath
    <2> QED
      BY <2>1, PathExists
  <1>2. \A level \in 0..depth :
          path[level] = IF level = 0 THEN Leaf(leaf)
                        ELSE IF GoesLeft(index, level - 1)
                             THEN Hash2(path[level - 1], ZeroHash[level - 1])
                             ELSE Hash2(LeftSibling(frontier, level - 1), path[level - 1])
    BY <1>1 DEF IsPath
  <1>3. ASSUME NEW l \in 0..(depth - 1)
        PROVE  path[l + 1] = IF GoesLeft(index, l)
                             THEN Hash2(path[l], ZeroHash[l])
                             ELSE Hash2(LeftSibling(frontier, l), path[l])
    <2>1. l + 1 \in 0..depth /\ l + 1 # 0 /\ (l + 1) - 1 = l
      OBVIOUS
    <2> QED
      BY <1>2, <2>1
  <1> QED
    BY <1>2, <1>3

IsRows(row, leaves, depth, n) ==
    row = [level \in 0..n |->
            [pos \in 0..(Width[depth - level] - 1) |->
                IF level = 0
                THEN Leaf(IF pos < Len(leaves) THEN leaves[pos + 1] ELSE Zero)
                ELSE Hash2(row[level - 1][2 * pos], row[level - 1][2 * pos + 1])]]

(* A row over the row below it, up to the root. *)
LEMMA RowsExist ==
    ASSUME NEW leaves, NEW depth \in Nat
    PROVE  \E row : IsRows(row, leaves, depth, depth)
  <1> DEFINE G == {n \in Nat : \E row : IsRows(row, leaves, depth, n)}
             bottom == [pos \in 0..(Width[depth - 0] - 1) |->
                           Leaf(IF pos < Len(leaves) THEN leaves[pos + 1] ELSE Zero)]
             over(row, level) ==
                 [pos \in 0..(Width[depth - level] - 1) |->
                     Hash2(row[2 * pos], row[2 * pos + 1])]
  <1>1. ASSUME NEW row, NEW n \in Nat
        PROVE  IsRows(row, leaves, depth, n) <=>
                  row = [level \in 0..n |-> IF level = 0 THEN bottom
                                            ELSE over(row[level - 1], level)]
    <2>1. [level \in 0..n |->
            [pos \in 0..(Width[depth - level] - 1) |->
                IF level = 0
                THEN Leaf(IF pos < Len(leaves) THEN leaves[pos + 1] ELSE Zero)
                ELSE Hash2(row[level - 1][2 * pos], row[level - 1][2 * pos + 1])]]
          = [level \in 0..n |-> IF level = 0 THEN bottom ELSE over(row[level - 1], level)]
      <3>1. ASSUME NEW level \in 0..n
            PROVE  [pos \in 0..(Width[depth - level] - 1) |->
                        IF level = 0
                        THEN Leaf(IF pos < Len(leaves) THEN leaves[pos + 1] ELSE Zero)
                        ELSE Hash2(row[level - 1][2 * pos], row[level - 1][2 * pos + 1])]
                   = IF level = 0 THEN bottom ELSE over(row[level - 1], level)
        <4>1. CASE level = 0
          BY <4>1
        <4>2. CASE level # 0
          BY <4>2
        <4> QED
          BY <4>1, <4>2
      <3> QED
        BY <3>1
    <2> QED
      BY <2>1 DEF IsRows
  <1>2. 0 \in G
    <2> HIDE DEF bottom, over
    <2>1. PICK row : row = [level \in 0..0 |-> bottom]
      OBVIOUS
    <2>2. row = [level \in 0..0 |-> IF level = 0 THEN bottom ELSE over(row[level - 1], level)]
      BY <2>1
    <2>3. IsRows(row, leaves, depth, 0)
      BY <1>1, <2>2
    <2> QED
      BY <2>3
  <1>3. ASSUME NEW n \in Nat, n \in G PROVE n + 1 \in G
    <2>1. PICK row : IsRows(row, leaves, depth, n)
      BY <1>3
    <2> HIDE DEF bottom, over
    <2>2. PICK v : v = [level \in 0..(n + 1) |-> IF level = 0 THEN bottom
                                                 ELSE over(row[level - 1], level)]
      OBVIOUS
    <2>3. \A level \in 0..n : v[level] = row[level]
      BY <1>1, <2>1, <2>2
    <2>4. \A level \in 0..(n + 1) :
            v[level] = IF level = 0 THEN bottom ELSE over(v[level - 1], level)
      <3> TAKE level \in 0..(n + 1)
      <3>1. level # 0 => level - 1 \in 0..n
        OBVIOUS
      <3> QED
        BY <2>2, <2>3, <3>1
    <2>5. v = [level \in 0..(n + 1) |-> IF level = 0 THEN bottom ELSE over(v[level - 1], level)]
      BY <2>2, <2>4
    <2>6. IsRows(v, leaves, depth, n + 1)
      BY <1>1, <2>5
    <2> QED
      BY <2>6
  <1>4. \A n \in Nat : n \in G
    <2> HIDE DEF G
    <2> QED
      BY <1>2, <1>3, NumberInduction
  <1> QED
    BY <1>4

(* The bottom row is the padded leaves, and a node above it hashes the two *)
(* below.                                                                  *)
LEMMA RowsEquation ==
    ASSUME NEW leaves, NEW depth \in Nat, NEW row, row = Rows(leaves, depth)
    PROVE  /\ \A pos \in 0..(Width[depth] - 1) :
                row[0][pos] = Leaf(IF pos < Len(leaves) THEN leaves[pos + 1] ELSE Zero)
           /\ \A l \in 0..(depth - 1) : \A pos \in 0..(Width[depth - (l + 1)] - 1) :
                row[l + 1][pos] = Hash2(row[l][2 * pos], row[l][2 * pos + 1])
  <1>1. IsRows(row, leaves, depth, depth)
    <2>1. row = CHOOSE r : IsRows(r, leaves, depth, depth)
      BY DEF Rows, IsRows
    <2> QED
      BY <2>1, RowsExist
  <1>2. ASSUME NEW pos \in 0..(Width[depth] - 1)
        PROVE  row[0][pos] = Leaf(IF pos < Len(leaves) THEN leaves[pos + 1] ELSE Zero)
    <2>1. 0 \in 0..depth /\ depth - 0 = depth
      OBVIOUS
    <2> QED
      BY <1>1, <2>1 DEF IsRows
  <1>3. ASSUME NEW l \in 0..(depth - 1), NEW pos \in 0..(Width[depth - (l + 1)] - 1)
        PROVE  row[l + 1][pos] = Hash2(row[l][2 * pos], row[l][2 * pos + 1])
    <2>1. l + 1 \in 0..depth /\ l + 1 # 0 /\ (l + 1) - 1 = l
      OBVIOUS
    <2>2. \A level \in 0..depth : \A p \in 0..(Width[depth - level] - 1) :
            level # 0 => row[level][p] = Hash2(row[level - 1][2 * p], row[level - 1][2 * p + 1])
      <3> TAKE level \in 0..depth
      <3>1. row[level] = [p \in 0..(Width[depth - level] - 1) |->
                IF level = 0
                THEN Leaf(IF p < Len(leaves) THEN leaves[p + 1] ELSE Zero)
                ELSE Hash2(row[level - 1][2 * p], row[level - 1][2 * p + 1])]
        BY <1>1 DEF IsRows
      <3> QED
        BY <3>1
    <2>3. row[l + 1][pos]
            = Hash2(row[(l + 1) - 1][2 * pos], row[(l + 1) - 1][2 * pos + 1])
      BY <2>1, <2>2
    <2> QED
      BY <2>1, <2>3
  <1> QED
    BY <1>2, <1>3

-----------------------------------------------------------------------------
(***************************************************************************)
(* Positions: the node above leaf `index` at each level.                   *)
(***************************************************************************)

Pos(index, level) == index \div Width[level]

(* A leaf's own position is its index. *)
LEMMA PosBottom ==
    ASSUME NEW index \in Nat
    PROVE  Pos(index, 0) = index
  BY WidthEquation DEF Pos

(* Going up a level halves the position; the next leaf has the same        *)
(* position or the next one.                                               *)
LEMMA PosFacts ==
    ASSUME NEW index \in Nat, NEW l \in Nat
    PROVE  /\ Pos(index, l) \in Nat
           /\ Pos(index, l + 1) = Pos(index, l) \div 2
           /\ Pos(index, l) * Width[l] <= index
           /\ index < (Pos(index, l) + 1) * Width[l]
           /\ Pos(index + 1, l) \in {Pos(index, l), Pos(index, l) + 1}
           /\ GoesLeft(index, l) <=> Pos(index, l) % 2 = 0
  <1>1. PICK w \in Nat \ {0} : w = Width[l]
    BY WidthEquation
  <1>2. Width[l + 1] = 2 * w
    BY <1>1, WidthEquation
  <1>3. /\ index \div w \in Nat /\ (index \div w) * w <= index
        /\ index < (index \div w + 1) * w
    OBVIOUS
  <1>4. (index + 1) \div w \in {index \div w, index \div w + 1}
    OBVIOUS
  <1>5. index \div (2 * w) = (index \div w) \div 2
    OBVIOUS
  <1> QED
    BY <1>1, <1>2, <1>3, <1>4, <1>5 DEF Pos, GoesLeft

(* An even position is twice the one above it; an odd one is one more. *)
LEMMA Halves ==
    ASSUME NEW p \in Nat
    PROVE  /\ p \div 2 \in Nat
           /\ p % 2 = 0 => p = 2 * (p \div 2)
           /\ p % 2 # 0 => p = 2 * (p \div 2) + 1
           /\ (p + 1) % 2 # 0 <=> p % 2 = 0
  OBVIOUS

(* The nodes above a leaf that fits the tree are in the rows. *)
LEMMA PosInRow ==
    ASSUME NEW depth \in Nat, NEW index \in Nat, index < Width[depth]
    PROVE  \A l \in 0..depth : Pos(index, l) \in 0..(Width[depth - l] - 1)
  <1> DEFINE A == {l \in Nat : l <= depth => Pos(index, l) \in 0..(Width[depth - l] - 1)}
  <1>1. 0 \in A
    <2>1. Pos(index, 0) = index /\ depth - 0 = depth /\ Width[depth] \in Nat
      BY PosBottom, WidthEquation
    <2> QED
      BY <2>1
  <1>2. ASSUME NEW l \in Nat, l \in A PROVE l + 1 \in A
    <2> SUFFICES ASSUME l + 1 <= depth
                 PROVE  Pos(index, l + 1) \in 0..(Width[depth - (l + 1)] - 1)
      OBVIOUS
    <2>1. Pos(index, l) \in 0..(Width[depth - l] - 1)
      BY <1>2
    <2>2. depth - (l + 1) \in Nat /\ (depth - (l + 1)) + 1 = depth - l
      OBVIOUS
    <2>3. PICK w \in Nat \ {0} : w = Width[depth - (l + 1)]
      BY <2>2, WidthEquation
    <2>4. Width[depth - l] = 2 * w
      BY <2>2, <2>3, WidthEquation
    <2>5. Pos(index, l + 1) = Pos(index, l) \div 2
      BY PosFacts
    <2>6. Pos(index, l) \div 2 \in 0..(w - 1)
      BY <2>1, <2>4
    <2> QED
      BY <2>3, <2>5, <2>6
  <1>3. \A l \in Nat : l \in A
    <2> HIDE DEF A
    <2> QED
      BY <1>1, <1>2, NumberInduction
  <1> QED
    BY <1>3

-----------------------------------------------------------------------------
(***************************************************************************)
(* What a node of the reference tree depends on.                           *)
(***************************************************************************)

(* The two nodes under a node of the tree are in the tree. *)
LEMMA TwoBelow ==
    ASSUME NEW depth \in Nat, NEW l \in Nat, l + 1 <= depth,
           NEW p \in 0..(Width[depth - (l + 1)] - 1)
    PROVE  /\ p \in Nat
           /\ 2 * p \in 0..(Width[depth - l] - 1)
           /\ 2 * p + 1 \in 0..(Width[depth - l] - 1)
           /\ \A leaves : \A row : row = Rows(leaves, depth) =>
                row[l + 1][p] = Hash2(row[l][2 * p], row[l][2 * p + 1])
  <1>1. depth - (l + 1) \in Nat /\ (depth - (l + 1)) + 1 = depth - l
    OBVIOUS
  <1>2. PICK w \in Nat \ {0} : w = Width[depth - (l + 1)]
    BY <1>1, WidthEquation
  <1>3. Width[depth - l] = 2 * w
    BY <1>1, <1>2, WidthEquation
  <1>4. p \in 0..(w - 1)
    BY <1>2
  <1>5. ASSUME NEW leaves, NEW row, row = Rows(leaves, depth)
        PROVE  row[l + 1][p] = Hash2(row[l][2 * p], row[l][2 * p + 1])
    <2>1. l \in 0..(depth - 1)
      OBVIOUS
    <2> QED
      BY <1>5, <2>1, RowsEquation
  <1> QED
    BY <1>3, <1>4, <1>5

(* A node with no leaf under it is the root of an empty subtree. *)
LEMMA EmptyBeyond ==
    ASSUME NEW depth \in Nat, NEW leaves, Len(leaves) \in Nat,
           NEW row, row = Rows(leaves, depth)
    PROVE  \A l \in 0..depth : \A p \in 0..(Width[depth - l] - 1) :
              p * Width[l] >= Len(leaves) => row[l][p] = ZeroHash[l]
  <1> DEFINE A == {l \in Nat : l <= depth =>
                      \A p \in 0..(Width[depth - l] - 1) :
                         p * Width[l] >= Len(leaves) => row[l][p] = ZeroHash[l]}
  <1>1. 0 \in A
    <2> SUFFICES ASSUME NEW p \in 0..(Width[depth] - 1), p * Width[0] >= Len(leaves)
                 PROVE  row[0][p] = ZeroHash[0]
      OBVIOUS
    <2>1. p \in Nat /\ Width[0] = 1
      BY WidthEquation
    <2>2. ~ (p < Len(leaves))
      BY <2>1
    <2>3. row[0][p] = Leaf(IF p < Len(leaves) THEN leaves[p + 1] ELSE Zero)
      BY RowsEquation
    <2> QED
      BY <2>2, <2>3, ZeroHashEquation
  <1>2. ASSUME NEW l \in Nat, l \in A PROVE l + 1 \in A
    <2> SUFFICES ASSUME l + 1 <= depth, NEW p \in 0..(Width[depth - (l + 1)] - 1),
                        p * Width[l + 1] >= Len(leaves)
                 PROVE  row[l + 1][p] = ZeroHash[l + 1]
      OBVIOUS
    <2>1. /\ p \in Nat
          /\ 2 * p \in 0..(Width[depth - l] - 1)
          /\ 2 * p + 1 \in 0..(Width[depth - l] - 1)
      BY TwoBelow
    <2>2. (2 * p) * Width[l] >= Len(leaves) /\ (2 * p + 1) * Width[l] >= Len(leaves)
      <3>1. PICK w \in Nat \ {0} : w = Width[l]
        BY WidthEquation
      <3>2. p * (2 * w) >= Len(leaves)
        BY <3>1, WidthEquation
      <3>3. (2 * p) * w >= Len(leaves) /\ (2 * p + 1) * w >= Len(leaves)
        BY <2>1, <3>2
      <3> QED
        BY <3>1, <3>3
    <2>3. row[l][2 * p] = ZeroHash[l] /\ row[l][2 * p + 1] = ZeroHash[l]
      BY <1>2, <2>1, <2>2
    <2>4. row[l + 1][p] = Hash2(row[l][2 * p], row[l][2 * p + 1])
      BY TwoBelow
    <2> QED
      BY <2>3, <2>4, ZeroHashEquation
  <1>3. \A l \in Nat : l \in A
    <2> HIDE DEF A
    <2> QED
      BY <1>1, <1>2, NumberInduction
  <1> QED
    BY <1>3

(* A node with m leaves before its end is the same in all lists that start *)
(* with those m leaves.                                                    *)
LEMMA SameBefore ==
    ASSUME NEW depth \in Nat, NEW a, NEW b, NEW m \in Nat,
           Len(a) \in Nat, Len(b) \in Nat, m <= Len(a), m <= Len(b),
           \A i \in 1..m : a[i] = b[i],
           NEW rowA, rowA = Rows(a, depth), NEW rowB, rowB = Rows(b, depth)
    PROVE  \A l \in 0..depth : \A p \in 0..(Width[depth - l] - 1) :
              (p + 1) * Width[l] <= m => rowA[l][p] = rowB[l][p]
  <1> DEFINE A == {l \in Nat : l <= depth =>
                      \A p \in 0..(Width[depth - l] - 1) :
                         (p + 1) * Width[l] <= m => rowA[l][p] = rowB[l][p]}
  <1>1. 0 \in A
    <2> SUFFICES ASSUME NEW p \in 0..(Width[depth] - 1), (p + 1) * Width[0] <= m
                 PROVE  rowA[0][p] = rowB[0][p]
      OBVIOUS
    <2>1. p \in Nat /\ Width[0] = 1
      BY WidthEquation
    <2>2. p + 1 \in 1..m /\ p < Len(a) /\ p < Len(b)
      BY <2>1
    <2>3. rowA[0][p] = Leaf(a[p + 1])
      BY <2>2, RowsEquation
    <2>4. rowB[0][p] = Leaf(b[p + 1])
      BY <2>2, RowsEquation
    <2> QED
      BY <2>2, <2>3, <2>4
  <1>2. ASSUME NEW l \in Nat, l \in A PROVE l + 1 \in A
    <2> SUFFICES ASSUME l + 1 <= depth, NEW p \in 0..(Width[depth - (l + 1)] - 1),
                        (p + 1) * Width[l + 1] <= m
                 PROVE  rowA[l + 1][p] = rowB[l + 1][p]
      OBVIOUS
    <2>1. /\ p \in Nat
          /\ 2 * p \in 0..(Width[depth - l] - 1)
          /\ 2 * p + 1 \in 0..(Width[depth - l] - 1)
      BY TwoBelow
    <2>2. (2 * p + 1) * Width[l] <= m /\ (2 * p + 1 + 1) * Width[l] <= m
      <3>1. PICK w \in Nat \ {0} : w = Width[l]
        BY WidthEquation
      <3>2. (p + 1) * (2 * w) <= m
        BY <3>1, WidthEquation
      <3>3. (2 * p + 1) * w <= m /\ (2 * p + 1 + 1) * w <= m
        BY <2>1, <3>2
      <3> QED
        BY <3>1, <3>3
    <2>3. rowA[l][2 * p] = rowB[l][2 * p] /\ rowA[l][2 * p + 1] = rowB[l][2 * p + 1]
      BY <1>2, <2>1, <2>2
    <2>4. \A leaves : \A row : row = Rows(leaves, depth) =>
            row[l + 1][p] = Hash2(row[l][2 * p], row[l][2 * p + 1])
      BY TwoBelow
    <2>5. /\ rowA[l + 1][p] = Hash2(rowA[l][2 * p], rowA[l][2 * p + 1])
          /\ rowB[l + 1][p] = Hash2(rowB[l][2 * p], rowB[l][2 * p + 1])
      BY <2>4
    <2> QED
      BY <2>3, <2>5
  <1>3. \A l \in Nat : l \in A
    <2> HIDE DEF A
    <2> QED
      BY <1>1, <1>2, NumberInduction
  <1> QED
    BY <1>3

-----------------------------------------------------------------------------
(***************************************************************************)
(* The frontier algorithm against the reference tree.                      *)
(***************************************************************************)

(* A frontier is right for the next leaf if it holds the left sibling      *)
(* wherever that leaf's path comes from the right.                         *)
FrontierOK(frontier, leaves, depth) ==
    \A l \in 0..(depth - 1) :
        ~ GoesLeft(Len(leaves), l) =>
            LeftSibling(frontier, l) = Rows(leaves, depth)[l][Pos(Len(leaves), l) - 1]

(* List b is list a with one more leaf. *)
Extends(b, a, leaf) ==
    /\ Len(a) \in Nat
    /\ Len(b) = Len(a) + 1
    /\ \A i \in 1..Len(a) : b[i] = a[i]
    /\ b[Len(a) + 1] = leaf

(* At every level the climb from a new leaf passes the node of the longer  *)
(* list's tree.                                                            *)
LEMMA ClimbPassesTree ==
    ASSUME NEW depth \in Nat, NEW a, NEW b, NEW leaf, NEW frontier,
           Extends(b, a, leaf), Len(a) < Width[depth], FrontierOK(frontier, a, depth),
           NEW path, path = Path(frontier, leaf, Len(a), depth)
    PROVE  \A l \in 0..depth : path[l] = Rows(b, depth)[l][Pos(Len(a), l)]
  <1> DEFINE A == {l \in Nat : l <= depth => path[l] = Rows(b, depth)[l][Pos(Len(a), l)]}
  <1>1. PICK n \in Nat : n = Len(a)
    BY DEF Extends
  <1>2. PICK rowA : rowA = Rows(a, depth)
    OBVIOUS
  <1>3. PICK rowB : rowB = Rows(b, depth)
    OBVIOUS
  <1>4. Len(b) \in Nat /\ n <= Len(b) /\ Len(b) = n + 1
    BY <1>1 DEF Extends
  <1>5. \A l \in 0..depth : Pos(n, l) \in 0..(Width[depth - l] - 1)
    BY <1>1, PosInRow
  <1>9. \A l \in 0..depth : \A p \in 0..(Width[depth - l] - 1) :
          p * Width[l] >= Len(b) => rowB[l][p] = ZeroHash[l]
    BY <1>3, <1>4, EmptyBeyond
  <1>10. \A l \in 0..depth : \A p \in 0..(Width[depth - l] - 1) :
          (p + 1) * Width[l] <= n => rowA[l][p] = rowB[l][p]
    <2>1. \A i \in 1..n : a[i] = b[i]
      BY <1>1 DEF Extends
    <2>2. /\ n <= Len(a) /\ Len(a) \in Nat
          /\ n <= Len(b) /\ Len(b) \in Nat
      BY <1>1, <1>4
    <2> QED
      BY <1>2, <1>3, <2>1, <2>2, SameBefore
  <1>6. 0 \in A
    <2>1. Pos(n, 0) = n /\ n \in 0..(Width[depth] - 1)
      <3>1. Pos(n, 0) = n
        BY PosBottom
      <3>2. Width[depth] \in Nat
        BY WidthEquation
      <3> QED
        BY <1>1, <3>1, <3>2
    <2>2. rowB[0][n] = Leaf(IF n < Len(b) THEN b[n + 1] ELSE Zero)
      BY <1>3, <2>1, RowsEquation
    <2>3. rowB[0][n] = Leaf(leaf)
      BY <1>1, <1>4, <2>2 DEF Extends
    <2>4. path[0] = Leaf(leaf)
      BY PathEquation
    <2> QED
      BY <1>1, <1>3, <2>1, <2>3, <2>4
  <1>7. ASSUME NEW l \in Nat, l \in A PROVE l + 1 \in A
    <2> SUFFICES ASSUME l + 1 <= depth
                 PROVE  path[l + 1] = rowB[l + 1][Pos(n, l + 1)]
      BY <1>1, <1>3
    <2>1. PICK p \in Nat : p = Pos(n, l)
      BY PosFacts
    <2>2. PICK q \in Nat : q = Pos(n, l + 1) /\ q = p \div 2
      BY <2>1, PosFacts, Halves
    <2>3. path[l] = rowB[l][p]
      BY <1>1, <1>3, <1>7, <2>1
    <2>4. q \in 0..(Width[depth - (l + 1)] - 1)
      BY <1>5, <2>2
    <2>5. /\ 2 * q \in 0..(Width[depth - l] - 1)
          /\ 2 * q + 1 \in 0..(Width[depth - l] - 1)
      BY <2>4, TwoBelow
    <2>6. rowB[l + 1][q] = Hash2(rowB[l][2 * q], rowB[l][2 * q + 1])
      BY <1>3, <2>4, TwoBelow
    <2>7. path[l + 1] = IF GoesLeft(n, l) THEN Hash2(path[l], ZeroHash[l])
                        ELSE Hash2(LeftSibling(frontier, l), path[l])
      <3>1. l \in 0..(depth - 1)
        OBVIOUS
      <3> QED
        BY <1>1, <3>1, PathEquation
    <2>8. PICK w \in Nat \ {0} : w = Width[l]
      BY WidthEquation
    <2>9. p * w <= n /\ n < (p + 1) * w
      BY <2>1, <2>8, PosFacts
    <2>10. CASE GoesLeft(n, l)
      <3>1. p = 2 * q
        <4>1. p % 2 = 0
          BY <2>1, <2>10, PosFacts
        <4> QED
          BY <2>1, <2>2, <4>1
      <3>2. (2 * q + 1) * w >= Len(b)
        BY <1>4, <2>9, <3>1
      <3>3. rowB[l][2 * q + 1] = ZeroHash[l]
        <4>1. l \in 0..depth /\ (2 * q + 1) * Width[l] >= Len(b)
          BY <2>8, <3>2
        <4> QED
          BY <1>9, <2>5, <4>1
      <3> QED
        BY <2>2, <2>3, <2>6, <2>7, <2>10, <3>1, <3>3
    <2>11. CASE ~ GoesLeft(n, l)
      <3>1. p = 2 * q + 1
        BY <2>1, <2>2, <2>11, PosFacts, Halves
      <3>2. (2 * q + 1) * w <= n
        BY <2>9, <3>1
      <3>3. rowA[l][2 * q] = rowB[l][2 * q]
        <4>1. l \in 0..depth /\ (2 * q + 1) * Width[l] <= n
          BY <2>8, <3>2
        <4> QED
          BY <1>10, <2>5, <4>1
      <3>4. LeftSibling(frontier, l) = rowA[l][2 * q]
        <4>1. l \in 0..(depth - 1) /\ p - 1 = 2 * q
          BY <3>1
        <4> QED
          BY <1>1, <1>2, <2>1, <2>11, <4>1 DEF FrontierOK
      <3> QED
        BY <2>2, <2>3, <2>6, <2>7, <2>11, <3>1, <3>3, <3>4
    <2> QED
      BY <2>10, <2>11
  <1>8. \A l \in Nat : l \in A
    <2> HIDE DEF A
    <2> QED
      BY <1>6, <1>7, NumberInduction
  <1> QED
    BY <1>8

(* The root the climb ends in is the Merkle root of the longer list. *)
LEMMA NewRootIsMerkleRoot ==
    ASSUME NEW depth \in Nat, NEW a, NEW b, NEW leaf, NEW frontier,
           Extends(b, a, leaf), Len(a) < Width[depth], FrontierOK(frontier, a, depth)
    PROVE  NewRoot(frontier, leaf, Len(a), depth) = MerkleRoot(b, depth)
  <1>1. Len(a) \in Nat
    BY DEF Extends
  <1>2. Pos(Len(a), depth) = 0
    <2>1. Pos(Len(a), depth) \in 0..(Width[depth - depth] - 1)
      BY <1>1, PosInRow
    <2>2. depth - depth = 0 /\ Width[0] = 1
      BY WidthEquation
    <2> QED
      BY <2>1, <2>2
  <1>3. PICK path : path = Path(frontier, leaf, Len(a), depth)
    OBVIOUS
  <1>4. path[depth] = Rows(b, depth)[depth][Pos(Len(a), depth)]
    BY <1>3, ClimbPassesTree
  <1> QED
    BY <1>2, <1>3, <1>4 DEF NewRoot, MerkleRoot

(* The frontier the climb leaves behind is right for the leaf after it. *)
LEMMA NewFrontierIsRight ==
    ASSUME NEW depth \in Nat, NEW a, NEW b, NEW leaf, NEW frontier,
           Extends(b, a, leaf), Len(a) < Width[depth], FrontierOK(frontier, a, depth)
    PROVE  FrontierOK(NewFrontier(frontier, leaf, Len(a), depth), b, depth)
  <1>1. PICK n \in Nat : n = Len(a)
    BY DEF Extends
  <1>2. Len(b) = n + 1
    BY <1>1 DEF Extends
  <1>3. PICK path : path = Path(frontier, leaf, n, depth)
    OBVIOUS
  <1>4. PICK new : new = NewFrontier(frontier, leaf, n, depth)
    OBVIOUS
  <1>5. PICK rowA : rowA = Rows(a, depth)
    OBVIOUS
  <1>6. PICK rowB : rowB = Rows(b, depth)
    OBVIOUS
  <1>7. \A l \in 0..depth : path[l] = rowB[l][Pos(n, l)]
    BY <1>1, <1>3, <1>6, ClimbPassesTree
  <1>9. \A l \in 0..depth : \A p \in 0..(Width[depth - l] - 1) :
          (p + 1) * Width[l] <= n => rowA[l][p] = rowB[l][p]
    <2>1. \A i \in 1..n : a[i] = b[i]
      BY <1>1 DEF Extends
    <2>2. /\ n <= Len(a) /\ Len(a) \in Nat
          /\ n <= Len(b) /\ Len(b) \in Nat
      BY <1>1, <1>2
    <2> QED
      BY <1>5, <1>6, <2>1, <2>2, SameBefore
  <1>8. ASSUME NEW l \in 0..(depth - 1), ~ GoesLeft(n + 1, l)
        PROVE  LeftSibling(new, l) = rowB[l][Pos(n + 1, l) - 1]
    <2>1. PICK p \in Nat : p = Pos(n, l)
      BY PosFacts
    <2>2. l \in Nat /\ l \in 0..depth /\ n + 1 \in Nat
      OBVIOUS
    <2>3. Pos(n + 1, l) \in {p, p + 1}
      BY <2>1, <2>2, PosFacts
    <2>4. GoesLeft(n, l) <=> p % 2 = 0
      BY <2>1, <2>2, PosFacts
    <2>5. Pos(n + 1, l) % 2 # 0
      BY <1>8, <2>2, PosFacts
    <2>6. CASE GoesLeft(n, l)
      <3>1. Pos(n + 1, l) - 1 = p
        BY <2>3, <2>4, <2>5, <2>6
      <3>2. LeftSibling(new, l) = path[l]
        BY <1>3, <1>4, <2>6 DEF NewFrontier, LeftSibling, Get
      <3> QED
        BY <1>7, <2>1, <2>2, <3>1, <3>2
    <2>7. CASE ~ GoesLeft(n, l)
      <3>1. Pos(n + 1, l) = p
        BY <2>3, <2>4, <2>5, <2>7, Halves
      <3>2. LeftSibling(new, l) = LeftSibling(frontier, l)
        BY <1>4, <2>7 DEF NewFrontier, LeftSibling, Get
      <3>3. LeftSibling(frontier, l) = rowA[l][p - 1]
        BY <1>1, <1>5, <2>1, <2>7 DEF FrontierOK
      <3>4. rowA[l][p - 1] = rowB[l][p - 1]
        <4>1. p - 1 \in Nat
          BY <2>4, <2>7
        <4>2. p \in 0..(Width[depth - l] - 1) /\ Width[depth - l] \in Nat
          <5>1. depth - l \in Nat
            OBVIOUS
          <5> QED
            BY <1>1, <2>1, <2>2, <5>1, PosInRow, WidthEquation
        <4>3. p - 1 \in 0..(Width[depth - l] - 1)
          BY <4>1, <4>2
        <4>4. ((p - 1) + 1) * Width[l] <= n
          <5>1. Pos(n, l) * Width[l] <= n
            BY <2>2, PosFacts
          <5>2. (p - 1) + 1 = p
            OBVIOUS
          <5> QED
            BY <2>1, <5>1, <5>2
        <4> QED
          BY <1>9, <2>2, <4>3, <4>4
      <3> QED
        BY <3>1, <3>2, <3>3, <3>4
    <2> QED
      BY <2>6, <2>7
  <1> QED
    BY <1>1, <1>2, <1>4, <1>6, <1>8 DEF FrontierOK

(* An empty tree asks nothing of its frontier. *)
LEMMA AnyFrontierOfNone ==
    ASSUME NEW depth \in Nat, NEW leaves, Len(leaves) = 0, NEW frontier
    PROVE  FrontierOK(frontier, leaves, depth)
  <1>1. ASSUME NEW l \in 0..(depth - 1) PROVE GoesLeft(0, l)
    <2>1. PICK w \in Nat \ {0} : w = Width[l]
      <3>1. l \in Nat
        OBVIOUS
      <3> QED
        BY <3>1, WidthEquation
    <2>2. (0 \div w) % 2 = 0
      OBVIOUS
    <2> QED
      BY <2>1, <2>2 DEF GoesLeft
  <1> QED
    BY <1>1 DEF FrontierOK

(* The root of an empty tree of any depth. *)
LEMMA EmptyTreeRoot ==
    ASSUME NEW depth \in Nat, NEW leaves, Len(leaves) = 0
    PROVE  MerkleRoot(leaves, depth) = ZeroHash[depth]
  <1>1. depth \in 0..depth /\ 0 \in 0..(Width[depth - depth] - 1) /\ Width[depth] \in Nat
    <2>1. depth - depth = 0 /\ Width[0] = 1
      BY WidthEquation
    <2>2. Width[depth] \in Nat
      BY WidthEquation
    <2> QED
      BY <2>1, <2>2
  <1>2. 0 * Width[depth] >= Len(leaves)
    BY <1>1
  <1> QED
    BY <1>1, <1>2, EmptyBeyond DEF MerkleRoot

-----------------------------------------------------------------------------
(***************************************************************************)
(* One write of a root, on a slot map and its index alone.                 *)
(***************************************************************************)

(* Writing `root` over another value adds the written slot to the holders *)
(* of root, removes it from the holders of the value it displaces, and    *)
(* leaves every other root's holders alone.                               *)
LEMMA HoldersAfterPut ==
    ASSUME NEW slots, NEW key, NEW root,
           ~ (key \in DOMAIN slots /\ slots[key] = root)
    PROVE  /\ DOMAIN Put(slots, key, root) = DOMAIN slots \cup {key}
           /\ Holders(Put(slots, key, root), root) = Holders(slots, root) \cup {key}
           /\ key \notin Holders(slots, root)
           /\ \A r : r # root =>
                Holders(Put(slots, key, root), r) = Holders(slots, r) \ {key}
           /\ \A r : r \in HeldRoots(Put(slots, key, root)) <=>
                r = root \/ (r \in HeldRoots(slots) /\ Holders(slots, r) # {key})
  BY DEF Put, Holders, HeldRoots

(* Finitely many slots have a count of holders; a root held has some. *)
LEMMA HoldersFinite ==
    ASSUME NEW slots, IsFiniteSet(DOMAIN slots), NEW root
    PROVE  /\ IsFiniteSet(Holders(slots, root))
           /\ Cardinality(Holders(slots, root)) \in Nat
           /\ root \in HeldRoots(slots) <=> Cardinality(Holders(slots, root)) # 0
  <1>1. IsFiniteSet(Holders(slots, root))
    BY FS_Subset DEF Holders
  <1>2. Cardinality(Holders(slots, root)) \in Nat
    BY <1>1, FS_CardinalityType
  <1>3. root \in HeldRoots(slots) <=> Holders(slots, root) # {}
    BY DEF Holders, HeldRoots
  <1> QED
    BY <1>1, <1>2, <1>3, FS_EmptySet

(* Counting one more holder of a root. *)
LEMMA IncrCounts ==
    ASSUME NEW index, NEW root
    PROVE  RootIndexIncr(index, root)
            = [r \in DOMAIN index \cup {root} |->
                IF r = root THEN RootRefCount(index, root) + 1 ELSE index[r]]
  <1>1. CASE root \in DOMAIN index
    BY <1>1 DEF RootIndexIncr, BagAdd, RootRefCount, Get
  <1>2. CASE root \notin DOMAIN index
    BY <1>2 DEF RootIndexIncr, BagAdd, RootRefCount, Get
  <1> QED
    BY <1>1, <1>2

(* The heart of the eviction argument: a write keeps the index exact. *)
LEMMA WriteKeepsExact ==
    ASSUME NEW slots, NEW key, NEW root, IsFiniteSet(DOMAIN slots),
           ~ (key \in DOMAIN slots /\ slots[key] = root)
    PROVE  IndexAfterWrite(slots, CountHolders(slots), key, root)
                = CountHolders(Put(slots, key, root))
  <1> DEFINE index == CountHolders(slots)
             new   == Put(slots, key, root)
             incr  == RootIndexIncr(index, root)
             count(s, r) == Cardinality(Holders(s, r))
  <1>1. /\ DOMAIN index = HeldRoots(slots)
        /\ \A r \in HeldRoots(slots) : index[r] = count(slots, r)
    BY DEF CountHolders
  <1>2. RootRefCount(index, root) = count(slots, root)
    <2>1. CASE root \in HeldRoots(slots)
      BY <2>1, <1>1 DEF RootRefCount, Get
    <2>2. CASE root \notin HeldRoots(slots)
      BY <2>2, <1>1, HoldersFinite DEF RootRefCount, Get
    <2> QED
      BY <2>1, <2>2
  <1>3. incr = [r \in HeldRoots(slots) \cup {root} |->
                    IF r = root THEN count(slots, root) + 1 ELSE index[r]]
    BY <1>1, <1>2, IncrCounts
  <1>4. /\ DOMAIN incr = HeldRoots(slots) \cup {root}
        /\ incr[root] = count(slots, root) + 1
        /\ \A r \in HeldRoots(slots) : r # root => incr[r] = count(slots, r)
    <2> HIDE DEF incr
    <2> QED
      BY <1>1, <1>3
  <1>5. /\ DOMAIN new = DOMAIN slots \cup {key}
        /\ Holders(new, root) = Holders(slots, root) \cup {key}
        /\ key \notin Holders(slots, root)
        /\ \A r : r # root => Holders(new, r) = Holders(slots, r) \ {key}
        /\ \A r : r \in HeldRoots(new) <=>
              r = root \/ (r \in HeldRoots(slots) /\ Holders(slots, r) # {key})
    BY HoldersAfterPut
  <1>6. count(new, root) = count(slots, root) + 1
    BY <1>5, HoldersFinite, FS_AddElement
  <1>7. /\ CountHolders(new) = [r \in HeldRoots(new) |-> count(new, r)]
        /\ root \in HeldRoots(new)
    BY <1>5 DEF CountHolders
  <1>8. CASE key \notin DOMAIN slots
    <2>1. \A r : r # root => Holders(new, r) = Holders(slots, r)
      BY <1>5, <1>8 DEF Holders
    <2>2. HeldRoots(new) = HeldRoots(slots) \cup {root}
      BY <1>5, <1>8 DEF Holders
    <2>3. \A r \in HeldRoots(slots) : r # root => index[r] = count(new, r)
      BY <1>1, <2>1
    <2>4. IndexAfterWrite(slots, index, key, root) = incr
      BY <1>8 DEF IndexAfterWrite
    <2> HIDE DEF new, incr, index, count
    <2> QED
      BY <1>3, <1>6, <1>7, <2>2, <2>3, <2>4 DEF index, new
  <1>9. CASE key \in DOMAIN slots
    <2> DEFINE old  == slots[key]
               decr == RootIndexDecr(incr, old)
    <2>1. old # root /\ old \in HeldRoots(slots) /\ key \in Holders(slots, old)
      BY <1>9 DEF Holders, HeldRoots
    <2>2. \A r : r # root /\ r # old => Holders(new, r) = Holders(slots, r)
      BY <1>5 DEF Holders
    <2>3. count(new, old) = count(slots, old) - 1
      BY <1>5, <2>1, HoldersFinite, FS_RemoveElement
    <2>4. incr[old] = count(slots, old) /\ old \in DOMAIN incr
      BY <1>4, <2>1
    <2>5. decr = [r \in IF incr[old] = 1 THEN DOMAIN incr \ {old} ELSE DOMAIN incr |->
                    IF r = old THEN incr[r] - 1 ELSE incr[r]]
      <3> HIDE DEF incr, old
      <3>1. CASE incr[old] = 1
        BY <3>1, <2>4 DEF RootIndexDecr, BagRemove
      <3>2. CASE incr[old] # 1
        BY <3>2, <2>4 DEF RootIndexDecr, BagRemove
      <3> QED
        BY <3>1, <3>2
    <2>6. Holders(slots, old) = {key} <=> count(slots, old) = 1
      <3>1. Holders(slots, old) = {key} => count(slots, old) = 1
        BY FS_Singleton
      <3>2. IsFiniteSet(Holders(new, old))
        BY <1>5, <2>1, HoldersFinite, FS_Subset
      <3>3. count(new, old) = 0 => Holders(new, old) = {}
        BY <3>2, FS_EmptySet
      <3>4. count(slots, old) = 1 => Holders(slots, old) = {key}
        BY <2>1, <2>3, <3>3, <1>5
      <3> QED
        BY <3>1, <3>4
    <2>7. \A r \in HeldRoots(slots) : Holders(slots, r) = {key} => r = old
      BY DEF Holders, HeldRoots
    <2>8. HeldRoots(new) = IF incr[old] = 1 THEN DOMAIN incr \ {old} ELSE DOMAIN incr
      <3> HIDE DEF new, incr, index, count, old
      <3> QED
        BY <1>4, <1>5, <2>1, <2>4, <2>6, <2>7
    <2>9. \A r \in HeldRoots(new) :
             count(new, r) = IF r = old THEN incr[r] - 1 ELSE incr[r]
      <3> SUFFICES ASSUME NEW r \in HeldRoots(new)
                   PROVE  count(new, r) = IF r = old THEN incr[r] - 1 ELSE incr[r]
        OBVIOUS
      <3> HIDE DEF new, incr, index, old
      <3>1. CASE r = root
        BY <3>1, <1>4, <1>6, <2>1
      <3>2. CASE r = old
        BY <3>2, <2>3, <2>4
      <3>3. CASE r # root /\ r # old
        BY <3>3, <1>4, <1>5, <2>2
      <3> QED
        BY <3>1, <3>2, <3>3
    <2>10. IndexAfterWrite(slots, index, key, root) = decr
      BY <1>9 DEF IndexAfterWrite
    <2> HIDE DEF decr, new, index, incr, old, count
    <2> QED
      BY <1>7, <2>5, <2>8, <2>9, <2>10 DEF index, new
  <1> QED
    BY <1>8, <1>9

(* On a chain older than the index, a write keeps it from overcounting: the *)
(* root it writes gains a slot and an entry, the one it displaces loses a   *)
(* slot and, where it has an entry, an entry.                               *)
LEMMA WriteKeepsUnder ==
    ASSUME NEW slots, NEW index, NEW key, NEW root, NEW after,
           IsFiniteSet(DOMAIN slots),
           ~ (key \in DOMAIN slots /\ slots[key] = root),
           \A r \in DOMAIN index :
              index[r] \in Nat \ {0} /\ index[r] <= Cardinality(Holders(slots, r)),
           after = IndexAfterWrite(slots, index, key, root)
    PROVE  \A r \in DOMAIN after :
              after[r] \in Nat \ {0} /\
              after[r] <= Cardinality(Holders(Put(slots, key, root), r))
  <1> DEFINE new == Put(slots, key, root)
             count(s, r) == Cardinality(Holders(s, r))
  <1>1. PICK incr : incr = RootIndexIncr(index, root)
    OBVIOUS
  <1>2. /\ DOMAIN incr = DOMAIN index \cup {root}
        /\ incr[root] = RootRefCount(index, root) + 1
        /\ \A r \in DOMAIN index : r # root => incr[r] = index[r]
    BY <1>1, IncrCounts
  <1>3. /\ DOMAIN new = DOMAIN slots \cup {key}
        /\ Holders(new, root) = Holders(slots, root) \cup {key}
        /\ key \notin Holders(slots, root)
        /\ \A r : r # root => Holders(new, r) = Holders(slots, r) \ {key}
        /\ \A r : r \in HeldRoots(new) <=>
              r = root \/ (r \in HeldRoots(slots) /\ Holders(slots, r) # {key})
    BY HoldersAfterPut
  <1> HIDE DEF new
  <1> SUFFICES \A r \in DOMAIN after : after[r] \in Nat \ {0} /\ after[r] <= count(new, r)
    BY DEF new
  <1>4. /\ count(slots, root) \in Nat
        /\ count(new, root) = count(slots, root) + 1
    BY <1>3, HoldersFinite, FS_AddElement
  <1>5. RootRefCount(index, root) \in Nat /\ RootRefCount(index, root) <= count(slots, root)
    BY <1>4 DEF RootRefCount, Get
  <1>6. incr[root] \in Nat \ {0} /\ incr[root] <= count(new, root)
    BY <1>2, <1>4, <1>5
  <1>7. CASE key \notin DOMAIN slots
    <2>1. after = incr
      BY <1>1, <1>7 DEF IndexAfterWrite
    <2>2. \A r : r # root => Holders(new, r) = Holders(slots, r)
      BY <1>3, <1>7 DEF Holders
    <2> QED
      BY <1>2, <1>6, <2>1, <2>2
  <1>8. CASE key \in DOMAIN slots
    <2>1. PICK old : old = slots[key]
      OBVIOUS
    <2>2. old # root /\ key \in Holders(slots, old) /\ after = RootIndexDecr(incr, old)
      BY <1>1, <1>8, <2>1 DEF Holders, IndexAfterWrite
    <2>3. \A r : r # root /\ r # old => Holders(new, r) = Holders(slots, r)
      BY <1>3, <2>1 DEF Holders
    <2>4. count(new, old) = count(slots, old) - 1 /\ count(slots, old) \in Nat
      BY <1>3, <2>2, HoldersFinite, FS_RemoveElement
    <2>5. /\ DOMAIN after \subseteq DOMAIN incr
          /\ \A r \in DOMAIN after : r # old => after[r] = incr[r]
          /\ old \in DOMAIN after => after[old] = incr[old] - 1 /\ incr[old] # 1
      BY <2>2 DEF RootIndexDecr, BagRemove
    <2> SUFFICES ASSUME NEW r \in DOMAIN after
                 PROVE  after[r] \in Nat \ {0} /\ after[r] <= count(new, r)
      OBVIOUS
    <2>6. CASE r = root
      BY <1>6, <2>2, <2>5, <2>6
    <2>7. CASE r = old
      <3>1. incr[old] = index[old] /\ old \in DOMAIN index
        BY <1>2, <2>2, <2>5, <2>7
      <3>2. index[old] \in Nat \ {0} /\ index[old] <= count(slots, old)
        BY <3>1
      <3> QED
        BY <2>4, <2>5, <2>7, <3>1, <3>2
    <2>8. CASE r # root /\ r # old
      <3>1. after[r] = index[r] /\ r \in DOMAIN index
        BY <1>2, <2>5, <2>8
      <3>2. Holders(new, r) = Holders(slots, r)
        BY <2>3, <2>8
      <3> QED
        BY <3>1, <3>2
    <2> QED
      BY <2>6, <2>7, <2>8
  <1> QED
    BY <1>7, <1>8

-----------------------------------------------------------------------------
(***************************************************************************)
(* The keeper functions, one field at a time.                              *)
(***************************************************************************)

(* What every operator needs of a forest to be a step on it. *)
Slotted(f) ==
    /\ HasForestFields(f)
    /\ f.rootSlot = [key \in DOMAIN f.rootSlot |-> f.rootSlot[key]]
    /\ IsFiniteSet(DOMAIN f.rootSlot)

(* The index counts the slots, or -- on a chain older than the index -- *)
(* some of them.                                                        *)
Exact(f) == f.rootIndex = CountHolders(f.rootSlot)

Undercounts(f) ==
    \A root \in DOMAIN f.rootIndex :
        /\ f.rootIndex[root] \in Nat \ {0}
        /\ f.rootIndex[root] <= Cardinality(Holders(f.rootSlot, root))

(* What a step does to the index: it keeps either of the two. *)
IndexKept(f, g) == (Exact(f) => Exact(g)) /\ (Undercounts(f) => Undercounts(g))

(* An exact index never overcounts. *)
LEMMA ExactUndercounts ==
    ASSUME NEW f, Slotted(f), Exact(f)
    PROVE  Undercounts(f)
  <1> SUFFICES ASSUME NEW root \in HeldRoots(f.rootSlot)
               PROVE  /\ Cardinality(Holders(f.rootSlot, root)) \in Nat \ {0}
                      /\ Cardinality(Holders(f.rootSlot, root))
                            <= Cardinality(Holders(f.rootSlot, root))
    BY DEF Exact, Undercounts, CountHolders
  <1>1. IsFiniteSet(DOMAIN f.rootSlot)
    BY DEF Slotted
  <1> QED
    BY <1>1, HoldersFinite

(* store.Set adds the key, gives it its value and keeps every other one. *)
LEMMA PutDomain ==
    ASSUME NEW map, NEW key, NEW value
    PROVE  DOMAIN Put(map, key, value) = DOMAIN map \cup {key}
  BY DEF Put

(* A write leaves every other key as it was. *)
LEMMA PutElsewhere ==
    ASSUME NEW map, NEW key, NEW value, NEW k \in DOMAIN map, k # key
    PROVE  k \in DOMAIN Put(map, key, value) /\ Put(map, key, value)[k] = map[k]
  BY DEF Put

(* An indexed write changes the slot it writes and nothing else but the *)
(* index, which stays as good as it was.                                *)
LEMMA SetRootIndexedFacts ==
    ASSUME NEW f, Slotted(f), NEW key, NEW root, NEW g, g = SetRootIndexed(f, key, root)
    PROVE  /\ Slotted(g) /\ IndexKept(f, g)
           /\ g.rootSlot = Put(f.rootSlot, key, root)
           /\ DOMAIN g.rootSlot = DOMAIN f.rootSlot \cup {key}
           /\ g.treeCount = f.treeCount /\ g.activeTreeId = f.activeTreeId
           /\ g.nextIndex = f.nextIndex /\ g.leaf = f.leaf
           /\ g.frontier = f.frontier /\ g.used = f.used
  <1> DEFINE same == key \in DOMAIN f.rootSlot /\ f.rootSlot[key] = root
  <1>1. CASE same
    <2>1. g = f
      BY <1>1 DEF SetRootIndexed
    <2>2. f.rootSlot = Put(f.rootSlot, key, root)
      BY <1>1 DEF Put, Slotted
    <2> QED
      BY <1>1, <2>1, <2>2 DEF IndexKept
  <1>2. CASE ~ same
    <2> DEFINE slots == Put(f.rootSlot, key, root)
               index == IndexAfterWrite(f.rootSlot, f.rootIndex, key, root)
    <2>0. DOMAIN slots = DOMAIN f.rootSlot \cup {key}
      BY PutDomain
    <2>1. g = [f EXCEPT !.rootSlot = slots, !.rootIndex = index]
      BY <1>2 DEF SetRootIndexed
    <2>2. Exact(f) => index = CountHolders(slots)
      BY <1>2, WriteKeepsExact DEF Slotted, Exact
    <2>6. Undercounts(f) =>
            \A r \in DOMAIN index :
              index[r] \in Nat \ {0} /\ index[r] <= Cardinality(Holders(slots, r))
      <3> HIDE DEF slots, index
      <3> QED
        BY <1>2, WriteKeepsUnder DEF Slotted, Undercounts, slots, index
    <2>3. slots = [k \in DOMAIN slots |-> slots[k]]
      BY DEF Put
    <2>4. IsFiniteSet(DOMAIN slots)
      <3> HIDE DEF slots
      <3> QED
        BY <2>0, FS_AddElement DEF Slotted
    <2> HIDE DEF slots, index
    <2>5. /\ g.rootSlot = slots /\ g.rootIndex = index
          /\ g.treeCount = f.treeCount /\ g.activeTreeId = f.activeTreeId
          /\ g.nextIndex = f.nextIndex /\ g.leaf = f.leaf
          /\ g.frontier = f.frontier /\ g.used = f.used
          /\ HasForestFields(g)
      BY <2>1 DEF Slotted, HasForestFields
    <2>7. Slotted(g)
      BY <2>3, <2>4, <2>5 DEF Slotted
    <2>8. IndexKept(f, g)
      BY <2>2, <2>5, <2>6 DEF IndexKept, Exact, Undercounts
    <2> QED
      BY <2>0, <2>5, <2>7, <2>8 DEF slots
  <1> QED
    BY <1>1, <1>2

(* Recording a root writes two slots and nothing else but the index. *)
LEMMA RecordRootFacts ==
    ASSUME NEW f, Slotted(f), NEW tree, NEW slot, NEW root,
           NEW g, g = RecordRoot(f, tree, slot, root)
    PROVE  /\ Slotted(g) /\ IndexKept(f, g)
           /\ g.rootSlot = Put(Put(f.rootSlot, TreeRootKey(tree), root),
                               RootHistoryKey(tree, slot), root)
           /\ DOMAIN g.rootSlot = DOMAIN f.rootSlot \cup
                {TreeRootKey(tree), RootHistoryKey(tree, slot)}
           /\ g.treeCount = f.treeCount /\ g.activeTreeId = f.activeTreeId
           /\ g.nextIndex = f.nextIndex /\ g.leaf = f.leaf
           /\ g.frontier = f.frontier /\ g.used = f.used
  <1>1. PICK h : h = SetRootIndexed(f, TreeRootKey(tree), root)
    OBVIOUS
  <1>2. g = SetRootIndexed(h, RootHistoryKey(tree, slot), root)
    BY <1>1 DEF RecordRoot, SetTreeRootIndexed, SetRootHistoryIndexed
  <1>3. /\ Slotted(h) /\ IndexKept(f, h)
        /\ h.rootSlot = Put(f.rootSlot, TreeRootKey(tree), root)
        /\ DOMAIN h.rootSlot = DOMAIN f.rootSlot \cup {TreeRootKey(tree)}
        /\ h.treeCount = f.treeCount /\ h.activeTreeId = f.activeTreeId
        /\ h.nextIndex = f.nextIndex /\ h.leaf = f.leaf
        /\ h.frontier = f.frontier /\ h.used = f.used
    BY <1>1, SetRootIndexedFacts
  <1>4. /\ Slotted(g) /\ IndexKept(h, g)
        /\ g.rootSlot = Put(h.rootSlot, RootHistoryKey(tree, slot), root)
        /\ DOMAIN g.rootSlot = DOMAIN h.rootSlot \cup {RootHistoryKey(tree, slot)}
        /\ g.treeCount = h.treeCount /\ g.activeTreeId = h.activeTreeId
        /\ g.nextIndex = h.nextIndex /\ g.leaf = h.leaf
        /\ g.frontier = h.frontier /\ g.used = h.used
    BY <1>2, <1>3, SetRootIndexedFacts
  <1>5. IndexKept(f, g)
    BY <1>3, <1>4 DEF IndexKept
  <1> QED
    BY <1>3, <1>4, <1>5

(* Only the slots and the index matter. *)
LEMMA SameSlots ==
    ASSUME NEW f, Slotted(f), NEW g, HasForestFields(g),
           g.rootSlot = f.rootSlot, g.rootIndex = f.rootIndex
    PROVE  Slotted(g) /\ IndexKept(f, g)
  BY DEF Slotted, IndexKept, Exact, Undercounts

(* What CreateTree stores as a frontier: the empty subtree of each level. *)
EmptyFrontier(depth) == [level \in 0..(depth - 1) |-> ZeroHash[level]]

(* A new tree gets the next id, an empty frontier and one root slot. *)
LEMMA CreateTreeFacts ==
    ASSUME NEW f, Slotted(f), NEW depth, NEW g, g = CreateTree(f, depth)
    PROVE  /\ Slotted(g) /\ IndexKept(f, g)
           /\ g.treeCount = f.treeCount + 1
           /\ g.activeTreeId = f.treeCount
           /\ g.nextIndex = Put(f.nextIndex, f.treeCount, 0)
           /\ g.frontier = Put(f.frontier, f.treeCount, EmptyFrontier(depth))
           /\ g.rootSlot = Put(f.rootSlot, TreeRootKey(f.treeCount), ZeroHash[depth])
           /\ DOMAIN g.frontier = DOMAIN f.frontier \cup {f.treeCount}
           /\ g.leaf = f.leaf /\ g.used = f.used
           /\ DOMAIN g.rootSlot = DOMAIN f.rootSlot \cup {TreeRootKey(f.treeCount)}
           /\ \A key \in DOMAIN f.rootSlot :
                key # TreeRootKey(f.treeCount) => g.rootSlot[key] = f.rootSlot[key]
  <1>1. PICK h : h = SetRootIndexed(f, TreeRootKey(f.treeCount), ZeroHash[depth])
    OBVIOUS
  <1>2. PICK nodes : nodes = Put(f.frontier, f.treeCount, EmptyFrontier(depth))
    OBVIOUS
  <1>3. DOMAIN nodes = DOMAIN f.frontier \cup {f.treeCount}
    BY <1>2, PutDomain
  <1>4. PICK next : next = Put(f.nextIndex, f.treeCount, 0)
    OBVIOUS
  <1>5. g = [h EXCEPT !.frontier = nodes, !.nextIndex = next,
                      !.treeCount = f.treeCount + 1, !.activeTreeId = f.treeCount]
    BY <1>1, <1>2, <1>4 DEF CreateTree, SetTreeRootIndexed, EmptyFrontier
  <1>6. /\ Slotted(h) /\ IndexKept(f, h)
        /\ h.rootSlot = Put(f.rootSlot, TreeRootKey(f.treeCount), ZeroHash[depth])
        /\ DOMAIN h.rootSlot = DOMAIN f.rootSlot \cup {TreeRootKey(f.treeCount)}
        /\ h.leaf = f.leaf /\ h.used = f.used
    BY <1>1, SetRootIndexedFacts
  <1>7. HasForestFields(h)
    BY <1>6 DEF Slotted
  <1>8. /\ g.treeCount = f.treeCount + 1 /\ g.activeTreeId = f.treeCount
        /\ g.nextIndex = next /\ g.frontier = nodes
        /\ g.leaf = h.leaf /\ g.used = h.used
        /\ g.rootSlot = h.rootSlot /\ g.rootIndex = h.rootIndex
        /\ HasForestFields(g)
    BY <1>5, <1>7 DEF HasForestFields
  <1>9. Slotted(g) /\ IndexKept(f, g)
    <2>1. Slotted(g) /\ IndexKept(h, g)
      BY <1>6, <1>8, SameSlots
    <2> QED
      BY <1>6, <2>1 DEF IndexKept
  <1>10. \A key \in DOMAIN f.rootSlot :
           key # TreeRootKey(f.treeCount) => g.rootSlot[key] = f.rootSlot[key]
    BY <1>6, <1>8, PutElsewhere
  <1> QED
    BY <1>2, <1>3, <1>4, <1>6, <1>8, <1>9, <1>10

(* The slots once a leaf's root is recorded: in the tree's current root and *)
(* in the ring position of the leaf's index.                                *)
SlotsAfterLeaf(f, tree, commitment, depth) ==
    LET index == TreeNextIndex(f, tree)
        root  == NewRoot(Frontier(f, tree), commitment, index, depth)
    IN  Put(Put(f.rootSlot, TreeRootKey(tree), root),
            RootHistoryKey(tree, index % MaxRootHistory), root)

(* One leaf: its tree's counter, leaf, frontier and two root slots change. *)
LEMMA InsertLeafFacts ==
    ASSUME NEW f, NEW tree, NEW commitment, NEW depth, NEW index, NEW g,
           Slotted(f), index = TreeNextIndex(f, tree),
           g = InsertLeafIntoTree(f, tree, commitment, depth)
    PROVE  /\ Slotted(g) /\ IndexKept(f, g)
           /\ g.treeCount = f.treeCount /\ g.activeTreeId = f.activeTreeId
           /\ g.nextIndex = Put(f.nextIndex, tree, index + 1)
           /\ g.leaf = Put(f.leaf, <<tree, index>>, commitment)
           /\ g.frontier = Put(f.frontier, tree,
                               NewFrontier(Frontier(f, tree), commitment, index, depth))
           /\ g.rootSlot = SlotsAfterLeaf(f, tree, commitment, depth)
           /\ DOMAIN g.frontier = DOMAIN f.frontier \cup {tree}
           /\ g.used = f.used
           /\ DOMAIN g.rootSlot = DOMAIN f.rootSlot \cup
                {TreeRootKey(tree), RootHistoryKey(tree, index % MaxRootHistory)}
  <1>1. PICK root : root = NewRoot(Frontier(f, tree), commitment, index, depth)
    OBVIOUS
  <1>2. PICK h : h = RecordRoot(f, tree, index % MaxRootHistory, root)
    OBVIOUS
  <1>3. PICK nodes : nodes = Put(f.frontier, tree,
                                 NewFrontier(Frontier(f, tree), commitment, index, depth))
    OBVIOUS
  <1>4. DOMAIN nodes = DOMAIN f.frontier \cup {tree}
    BY <1>3, PutDomain
  <1>5. PICK next, leaves : /\ next = Put(f.nextIndex, tree, index + 1)
                            /\ leaves = Put(f.leaf, <<tree, index>>, commitment)
    OBVIOUS
  <1>6. g = [h EXCEPT !.leaf = leaves, !.frontier = nodes, !.nextIndex = next]
    BY <1>1, <1>2, <1>3, <1>5 DEF InsertLeafIntoTree
  <1>7. /\ Slotted(h) /\ IndexKept(f, h)
        /\ h.rootSlot = SlotsAfterLeaf(f, tree, commitment, depth)
        /\ DOMAIN h.rootSlot = DOMAIN f.rootSlot \cup
                {TreeRootKey(tree), RootHistoryKey(tree, index % MaxRootHistory)}
        /\ h.treeCount = f.treeCount /\ h.activeTreeId = f.activeTreeId
        /\ h.used = f.used
    BY <1>1, <1>2, RecordRootFacts DEF SlotsAfterLeaf
  <1>8. HasForestFields(h)
    BY <1>7 DEF Slotted
  <1>9. /\ g.treeCount = h.treeCount /\ g.activeTreeId = h.activeTreeId
        /\ g.nextIndex = next /\ g.frontier = nodes /\ g.leaf = leaves
        /\ g.used = h.used /\ HasForestFields(g)
        /\ g.rootSlot = h.rootSlot /\ g.rootIndex = h.rootIndex
    BY <1>6, <1>8 DEF HasForestFields
  <1>10. Slotted(g) /\ IndexKept(f, g)
    <2>1. Slotted(g) /\ IndexKept(h, g)
      BY <1>7, <1>9, SameSlots
    <2> QED
      BY <1>7, <2>1 DEF IndexKept
  <1> QED
    BY <1>3, <1>4, <1>5, <1>7, <1>9, <1>10

-----------------------------------------------------------------------------
(***************************************************************************)
(* The inductive invariant: the store's shape, with finitely many slots.   *)
(* What the index holds is followed apart (IndexKept).                     *)
(***************************************************************************)
Good(f) == ForestShapeOK(f) /\ Slotted(f)

(* The empty store satisfies it. *)
LEMMA EmptyForestGood ==
    ASSUME NEW f, f = EmptyForest
    PROVE  Good(f) /\ UniqueLeaves(f) /\ LeavesAreNotes(f) /\ Exact(f)
  <1>1. HasForestFields(f)
    BY DEF EmptyForest, HasForestFields
  <1>2. Trees(f) = {}
    BY DEF EmptyForest, Trees
  <1>3. ForestShapeOK(f)
    BY <1>1, <1>2 DEF EmptyForest, ForestShapeOK, CountersOK, LeavesOK, SlotsOK
  <1>4. /\ DOMAIN f.rootSlot = {} /\ DOMAIN f.rootIndex = {}
        /\ f.rootSlot = <<>> /\ f.rootIndex = <<>>
    BY DEF EmptyForest
  <1>5. CountHolders(f.rootSlot) = <<>>
    BY <1>4 DEF CountHolders, HeldRoots
  <1>6. f.rootSlot = [key \in DOMAIN f.rootSlot |-> f.rootSlot[key]]
    BY <1>4
  <1>7. IsFiniteSet(DOMAIN f.rootSlot)
    BY <1>4, FS_EmptySet
  <1>8. UniqueLeaves(f) /\ LeavesAreNotes(f)
    BY DEF EmptyForest, UniqueLeaves, LeavesAreNotes
  <1> QED
    BY <1>1, <1>3, <1>4, <1>5, <1>6, <1>7, <1>8 DEF Good, Slotted, Exact

(* A new tree keeps the invariant (CreateTree). *)
LEMMA CreateTreeGood ==
    ASSUME NEW f, Good(f), NEW depth, NEW g, g = CreateTree(f, depth)
    PROVE  Good(g) /\ IndexKept(f, g) /\ g.treeCount = f.treeCount + 1
  <1>1. f.treeCount \in Nat
    BY DEF Good, ForestShapeOK, CountersOK
  <1>2. /\ Slotted(g) /\ IndexKept(f, g)
        /\ g.treeCount = f.treeCount + 1 /\ g.activeTreeId = f.treeCount
        /\ g.nextIndex = Put(f.nextIndex, f.treeCount, 0)
        /\ DOMAIN g.frontier = DOMAIN f.frontier \cup {f.treeCount}
        /\ g.leaf = f.leaf /\ g.used = f.used
        /\ DOMAIN g.rootSlot = DOMAIN f.rootSlot \cup {TreeRootKey(f.treeCount)}
    BY CreateTreeFacts DEF Good
  <1>3. Trees(g) = Trees(f) \cup {f.treeCount} /\ f.treeCount \notin Trees(f)
    BY <1>1, <1>2 DEF Trees
  <1>4. /\ g.nextIndex \in [Trees(g) -> Nat]
        /\ g.nextIndex[f.treeCount] = 0
        /\ \A tree \in Trees(f) : g.nextIndex[tree] = f.nextIndex[tree]
    BY <1>2, <1>3 DEF Good, ForestShapeOK, CountersOK, Put
  <1>5. CountersOK(g)
    BY <1>1, <1>2, <1>3, <1>4 DEF Good, ForestShapeOK, CountersOK
  <1>6. LeavesOK(g)
    <2>1. \A key \in DOMAIN g.leaf :
            \E tree \in Trees(g) : \E i \in 0..(g.nextIndex[tree] - 1) : key = <<tree, i>>
      BY <1>2, <1>3, <1>4 DEF Good, ForestShapeOK, LeavesOK
    <2>2. ASSUME NEW tree \in Trees(g), NEW i \in 0..(g.nextIndex[tree] - 1)
          PROVE  <<tree, i>> \in DOMAIN g.leaf
      <3>1. tree \in Trees(f)
        BY <1>3, <1>4
      <3> QED
        BY <3>1, <1>2, <1>4 DEF Good, ForestShapeOK, LeavesOK
    <2> QED
      BY <2>1, <2>2, <1>2 DEF Good, ForestShapeOK, LeavesOK
  <1>7. SlotsOK(g)
    <2>1. ScannedKeys(f.treeCount) \subseteq ScannedKeys(g.treeCount)
      BY <1>1, <1>2 DEF ScannedKeys
    <2>2. TreeRootKey(f.treeCount) \in ScannedKeys(g.treeCount)
      BY <1>1, <1>2 DEF ScannedKeys
    <2>3. DOMAIN g.rootSlot \subseteq ScannedKeys(g.treeCount)
      BY <1>2, <2>1, <2>2 DEF Good, ForestShapeOK, SlotsOK
    <2>4. \A tree \in Trees(g) : TreeRootKey(tree) \in DOMAIN g.rootSlot
      BY <1>2, <1>3 DEF Good, ForestShapeOK, SlotsOK
    <2> QED
      BY <1>2, <2>3, <2>4 DEF SlotsOK, Slotted
  <1> QED
    BY <1>2, <1>5, <1>6, <1>7 DEF Good, ForestShapeOK, Slotted

(* A leaf in an existing tree keeps the invariant (insertLeafIntoTree). *)
LEMMA InsertLeafGood ==
    ASSUME NEW f, Good(f), NEW tree \in Trees(f), NEW commitment,
           NEW depth, NEW g, g = InsertLeafIntoTree(f, tree, commitment, depth)
    PROVE  Good(g) /\ IndexKept(f, g) /\ g.used = f.used
  <1>1. PICK index : index = TreeNextIndex(f, tree)
    OBVIOUS
  <1>2. /\ f.treeCount \in Nat /\ index \in Nat /\ index = f.nextIndex[tree]
        /\ tree \in Nat /\ f.nextIndex \in [Trees(f) -> Nat]
    BY <1>1 DEF Good, ForestShapeOK, CountersOK, TreeNextIndex, Get, Trees
  <1>3. /\ Slotted(g) /\ IndexKept(f, g)
        /\ g.treeCount = f.treeCount /\ g.activeTreeId = f.activeTreeId
        /\ g.nextIndex = Put(f.nextIndex, tree, index + 1)
        /\ g.leaf = Put(f.leaf, <<tree, index>>, commitment)
        /\ DOMAIN g.frontier = DOMAIN f.frontier \cup {tree}
        /\ g.used = f.used
        /\ DOMAIN g.rootSlot = DOMAIN f.rootSlot \cup
                {TreeRootKey(tree), RootHistoryKey(tree, index % MaxRootHistory)}
    BY <1>1, InsertLeafFacts DEF Good
  <1>4. Trees(g) = Trees(f)
    BY <1>3 DEF Trees
  <1>5. /\ g.nextIndex \in [Trees(g) -> Nat]
        /\ g.nextIndex[tree] = index + 1
        /\ \A t \in Trees(f) : t # tree => g.nextIndex[t] = f.nextIndex[t]
    BY <1>2, <1>3, <1>4 DEF Put
  <1>6. CountersOK(g)
    BY <1>3, <1>4, <1>5 DEF Good, ForestShapeOK, CountersOK
  <1>7. LeavesOK(g)
    <2>1. /\ DOMAIN g.leaf = DOMAIN f.leaf \cup {<<tree, index>>}
          /\ g.leaf[<<tree, index>>] = commitment
          /\ \A key \in DOMAIN f.leaf : key # <<tree, index>> => g.leaf[key] = f.leaf[key]
      BY <1>3 DEF Put
    <2>2. ASSUME NEW key \in DOMAIN g.leaf
          PROVE  \E t \in Trees(g) : \E i \in 0..(g.nextIndex[t] - 1) : key = <<t, i>>
      <3>1. CASE key = <<tree, index>>
        <4>1. index \in 0..(g.nextIndex[tree] - 1)
          BY <1>2, <1>5
        <4> QED
          BY <3>1, <4>1, <1>4
      <3>2. CASE key # <<tree, index>>
        <4>1. PICK t \in Trees(f) : \E i \in 0..(f.nextIndex[t] - 1) : key = <<t, i>>
          BY <3>2, <2>1 DEF Good, ForestShapeOK, LeavesOK
        <4>2. PICK i \in 0..(f.nextIndex[t] - 1) : key = <<t, i>>
          BY <4>1
        <4>3. f.nextIndex[t] \in Nat /\ g.nextIndex[t] \in Nat
          BY <1>2, <1>4, <1>5
        <4>4. f.nextIndex[t] <= g.nextIndex[t]
          BY <1>2, <1>5, <4>3
        <4>5. i \in 0..(g.nextIndex[t] - 1)
          BY <4>2, <4>3, <4>4
        <4> QED
          BY <4>2, <4>5, <1>4
      <3> QED
        BY <3>1, <3>2
    <2>3. ASSUME NEW t \in Trees(g), NEW i \in 0..(g.nextIndex[t] - 1)
          PROVE  <<t, i>> \in DOMAIN g.leaf
      <3>1. CASE t = tree /\ i = index
        BY <3>1, <2>1
      <3>2. CASE ~ (t = tree /\ i = index)
        <4>1. f.nextIndex[t] \in Nat
          BY <1>2, <1>4
        <4>2. i \in 0..(f.nextIndex[t] - 1)
          BY <3>2, <1>2, <1>4, <1>5, <4>1
        <4>3. <<t, i>> \in DOMAIN f.leaf
          BY <4>2, <1>4 DEF Good, ForestShapeOK, LeavesOK
        <4> QED
          BY <4>3, <3>2, <2>1
      <3> QED
        BY <3>1, <3>2
    <2> QED
      BY <2>2, <2>3, <1>3 DEF Good, ForestShapeOK, LeavesOK
  <1>8. SlotsOK(g)
    <2>1. index % MaxRootHistory \in 0..(MaxRootHistory - 1)
      BY <1>2, RootHistoryAssumption
    <2>2. /\ TreeRootKey(tree) \in ScannedKeys(g.treeCount)
          /\ RootHistoryKey(tree, index % MaxRootHistory) \in ScannedKeys(g.treeCount)
      <3>1. tree \in 0..(g.treeCount - 1)
        BY <1>3 DEF Trees
      <3> QED
        BY <3>1, <2>1 DEF ScannedKeys
    <2>3. DOMAIN g.rootSlot \subseteq ScannedKeys(g.treeCount)
      BY <1>3, <2>2 DEF Good, ForestShapeOK, SlotsOK
    <2>4. \A t \in Trees(g) : TreeRootKey(t) \in DOMAIN g.rootSlot
      BY <1>3, <1>4 DEF Good, ForestShapeOK, SlotsOK
    <2> QED
      BY <1>3, <2>3, <2>4 DEF SlotsOK, Slotted
  <1> QED
    BY <1>3, <1>6, <1>7, <1>8 DEF Good, ForestShapeOK, Slotted

(* EnsureTreeExists and the change of a full tree leave a tree to insert *)
(* into, and move no leaf.                                               *)
LEMMA ForestWithRoomGood ==
    ASSUME NEW f, Good(f), NEW depth, NEW g, g = ForestWithRoom(f, depth)
    PROVE  /\ Good(g) /\ IndexKept(f, g) /\ g.activeTreeId \in Trees(g)
           /\ g.leaf = f.leaf /\ g.used = f.used
  <1>1. PICK e : e = EnsureTreeExists(f, depth)
    OBVIOUS
  <1>2. /\ Good(e) /\ IndexKept(f, e) /\ e.treeCount \in Nat \ {0}
        /\ e.leaf = f.leaf /\ e.used = f.used
    <2>1. f.treeCount \in Nat
      BY DEF Good, ForestShapeOK, CountersOK
    <2>2. CASE f.treeCount = 0
      <3>1. e = CreateTree(f, depth)
        BY <1>1, <2>2 DEF EnsureTreeExists
      <3> QED
        BY <3>1, <2>1, CreateTreeGood, CreateTreeFacts DEF Good
    <2>3. CASE f.treeCount # 0
      BY <1>1, <2>1, <2>3 DEF EnsureTreeExists, IndexKept
    <2> QED
      BY <2>2, <2>3
  <1>3. /\ Good(g) /\ IndexKept(f, g) /\ g.treeCount \in Nat \ {0}
        /\ g.leaf = f.leaf /\ g.used = f.used
    <2>1. CASE TreeFull(e, e.activeTreeId, depth)
      <3>1. g = CreateTree(e, depth)
        BY <1>1, <2>1 DEF ForestWithRoom
      <3>2. /\ Good(g) /\ IndexKept(e, g) /\ g.treeCount \in Nat \ {0}
            /\ g.leaf = f.leaf /\ g.used = f.used
        BY <3>1, <1>2, CreateTreeGood, CreateTreeFacts DEF Good
      <3> QED
        BY <3>2, <1>2 DEF IndexKept
    <2>2. CASE ~ TreeFull(e, e.activeTreeId, depth)
      <3>1. g = e
        BY <1>1, <2>2 DEF ForestWithRoom
      <3> QED
        BY <3>1, <1>2
    <2> QED
      BY <2>1, <2>2
  <1>4. g.activeTreeId = g.treeCount - 1
    BY <1>3 DEF Good, ForestShapeOK, CountersOK
  <1> QED
    BY <1>3, <1>4 DEF Trees

(* A whole insertion keeps the invariant. *)
LEMMA InsertNoteGood ==
    ASSUME NEW f, Good(f), NEW commitment, NEW depth,
           NEW g, g = InsertNote(f, commitment, depth)
    PROVE  Good(g) /\ IndexKept(f, g)
  <1>1. PICK r : r = ForestWithRoom(f, depth)
    OBVIOUS
  <1>2. PICK i : i = InsertLeafIntoTree(r, r.activeTreeId, commitment, depth)
    OBVIOUS
  <1>3. g = [i EXCEPT !.used = i.used \cup {commitment}]
    BY <1>1, <1>2 DEF InsertNote
  <1>4. Good(r) /\ IndexKept(f, r) /\ r.activeTreeId \in Trees(r)
    BY <1>1, ForestWithRoomGood
  <1>5. Good(i) /\ IndexKept(r, i)
    BY <1>2, <1>4, InsertLeafGood
  <1>6. HasForestFields(i)
    BY <1>5 DEF Good, Slotted
  <1>7. /\ g.treeCount = i.treeCount /\ g.activeTreeId = i.activeTreeId
        /\ g.nextIndex = i.nextIndex /\ g.frontier = i.frontier /\ g.leaf = i.leaf
        /\ g.used = i.used \cup {commitment} /\ HasForestFields(g)
        /\ g.rootSlot = i.rootSlot /\ g.rootIndex = i.rootIndex
    BY <1>3, <1>6 DEF HasForestFields
  <1>8. Slotted(g) /\ IndexKept(f, g)
    <2>1. Slotted(g) /\ IndexKept(i, g)
      BY <1>5, <1>7, SameSlots DEF Good
    <2> QED
      BY <1>4, <1>5, <2>1 DEF IndexKept
  <1>9. Trees(g) = Trees(i)
    BY <1>7 DEF Trees
  <1>10. CountersOK(g)
    BY <1>5, <1>7, <1>9 DEF Good, ForestShapeOK, CountersOK
  <1>11. LeavesOK(g)
    BY <1>5, <1>7, <1>9 DEF Good, ForestShapeOK, LeavesOK
  <1>12. SlotsOK(g)
    BY <1>5, <1>7, <1>9 DEF Good, ForestShapeOK, SlotsOK
  <1> QED
    BY <1>7, <1>8, <1>10, <1>11, <1>12 DEF Good, ForestShapeOK

(* An insertion adds one leaf where there was none and one used marker, and *)
(* leaves every other leaf where it was, whether or not a tree was opened.  *)
LEMMA InsertNoteLeaf ==
    ASSUME NEW f, Good(f), NEW commitment, NEW depth,
           NEW g, g = InsertNote(f, commitment, depth)
    PROVE  /\ g.used = f.used \cup {commitment}
           /\ \E key : key \notin DOMAIN f.leaf /\ g.leaf = Put(f.leaf, key, commitment)
  <1>1. PICK r : r = ForestWithRoom(f, depth)
    OBVIOUS
  <1>2. PICK tree, index : tree = r.activeTreeId /\ index = TreeNextIndex(r, tree)
    OBVIOUS
  <1>3. PICK i : i = InsertLeafIntoTree(r, tree, commitment, depth)
    OBVIOUS
  <1>4. /\ Good(r) /\ tree \in Trees(r) /\ r.leaf = f.leaf /\ r.used = f.used
    BY <1>1, <1>2, ForestWithRoomGood
  <1>5. i.leaf = Put(f.leaf, <<tree, index>>, commitment) /\ i.used = f.used
    BY <1>2, <1>3, <1>4, InsertLeafFacts DEF Good
  <1>6. HasForestFields(i)
    BY <1>3, <1>4, InsertLeafGood DEF Good, Slotted
  <1>7. g = [i EXCEPT !.used = i.used \cup {commitment}]
    BY <1>1, <1>2, <1>3 DEF InsertNote
  <1>8. g.leaf = i.leaf /\ g.used = i.used \cup {commitment}
    BY <1>6, <1>7 DEF HasForestFields
  <1>9. r.nextIndex \in [Trees(r) -> Nat] /\ index = r.nextIndex[tree]
    BY <1>2, <1>4 DEF Good, ForestShapeOK, CountersOK, TreeNextIndex, Get
  <1>10. <<tree, index>> \notin DOMAIN f.leaf
    <2> SUFFICES ASSUME <<tree, index>> \in DOMAIN r.leaf PROVE FALSE
      BY <1>4
    <2>1. PICK t \in Trees(r) :
            \E n \in 0..(r.nextIndex[t] - 1) : <<tree, index>> = <<t, n>>
      BY <1>4 DEF Good, ForestShapeOK, LeavesOK
    <2>2. index \in 0..(r.nextIndex[tree] - 1)
      BY <2>1
    <2> QED
      BY <2>2, <1>9, <1>4
  <1> QED
    BY <1>5, <1>8, <1>10

(* A forest gets room for a leaf by at most two new trees. *)
LEMMA RoomSteps ==
    ASSUME NEW f, NEW depth, NEW r, r = ForestWithRoom(f, depth)
    PROVE  \E e : /\ e = f \/ e = CreateTree(f, depth)
                  /\ r = e \/ r = CreateTree(e, depth)
  <1>1. PICK e : e = EnsureTreeExists(f, depth)
    OBVIOUS
  <1>2. e = f \/ e = CreateTree(f, depth)
    BY <1>1 DEF EnsureTreeExists
  <1>3. r = e \/ r = CreateTree(e, depth)
    BY <1>1 DEF ForestWithRoom
  <1> QED
    BY <1>2, <1>3

(* There is room in it: a new tree is empty, and no tree is without leaves. *)
LEMMA RoomThere ==
    ASSUME NEW f, Good(f), NEW depth \in Nat, NEW r, r = ForestWithRoom(f, depth)
    PROVE  /\ r.nextIndex[r.activeTreeId] \in Nat
           /\ r.nextIndex[r.activeTreeId] < Width[depth]
  <1>1. PICK e : e = EnsureTreeExists(f, depth)
    OBVIOUS
  <1>2. Good(r) /\ r.activeTreeId \in Trees(r)
    BY ForestWithRoomGood
  <1>3. PICK n \in Nat : n = r.nextIndex[r.activeTreeId]
    BY <1>2 DEF Good, ForestShapeOK, CountersOK
  <1>4. PICK w \in Nat \ {0} : w = Width[depth]
    BY WidthEquation
  <1>5. CASE TreeFull(e, e.activeTreeId, depth)
    <2>1. r = CreateTree(e, depth)
      BY <1>1, <1>5 DEF ForestWithRoom
    <2>2. Slotted(e)
      <3>1. CASE f.treeCount = 0
        BY <1>1, <3>1, CreateTreeGood DEF EnsureTreeExists, Good
      <3>2. CASE f.treeCount # 0
        BY <1>1, <3>2 DEF EnsureTreeExists, Good
      <3> QED
        BY <3>1, <3>2
    <2>3. r.activeTreeId = e.treeCount /\ r.nextIndex = Put(e.nextIndex, e.treeCount, 0)
      BY <2>1, <2>2, CreateTreeFacts
    <2>4. r.nextIndex[r.activeTreeId] = 0
      BY <2>3 DEF Put
    <2> QED
      BY <1>3, <1>4, <2>4
  <1>6. CASE ~ TreeFull(e, e.activeTreeId, depth)
    <2>1. r = e
      BY <1>1, <1>6 DEF ForestWithRoom
    <2>2. TreeNextIndex(r, r.activeTreeId) = n
      BY <1>2, <1>3 DEF Good, ForestShapeOK, CountersOK, TreeNextIndex, Get
    <2>3. ~ (n >= w)
      BY <1>4, <1>6, <2>1, <2>2 DEF TreeFull
    <2> QED
      BY <1>3, <1>4, <2>3
  <1> QED
    BY <1>5, <1>6

(* What an insertion writes, into a forest r with room for it. *)
NoteInserted(r, g, commitment, depth) ==
    LET tree  == r.activeTreeId
        index == r.nextIndex[tree]
    IN  /\ g.treeCount = r.treeCount /\ g.activeTreeId = r.activeTreeId
        /\ g.nextIndex = Put(r.nextIndex, tree, index + 1)
        /\ g.leaf = Put(r.leaf, <<tree, index>>, commitment)
        /\ g.frontier = Put(r.frontier, tree,
                            NewFrontier(Frontier(r, tree), commitment, index, depth))
        /\ g.rootSlot = SlotsAfterLeaf(r, tree, commitment, depth)
        /\ g.used = r.used \cup {commitment}

(* A whole insertion writes one leaf into the forest with room for it. *)
LEMMA InsertNoteWrites ==
    ASSUME NEW f, Good(f), NEW commitment, NEW depth,
           NEW r, r = ForestWithRoom(f, depth),
           NEW g, g = InsertNote(f, commitment, depth)
    PROVE  NoteInserted(r, g, commitment, depth)
  <1>1. PICK tree, index : tree = r.activeTreeId /\ index = TreeNextIndex(r, tree)
    OBVIOUS
  <1>2. PICK i : i = InsertLeafIntoTree(r, tree, commitment, depth)
    OBVIOUS
  <1>3. Good(r) /\ tree \in Trees(r)
    BY <1>1, ForestWithRoomGood
  <1>4. index = r.nextIndex[tree]
    BY <1>1, <1>3 DEF Good, ForestShapeOK, CountersOK, TreeNextIndex, Get
  <1>5. /\ Slotted(i) /\ IndexKept(r, i)
        /\ i.treeCount = r.treeCount /\ i.activeTreeId = r.activeTreeId
        /\ i.nextIndex = Put(r.nextIndex, tree, index + 1)
        /\ i.leaf = Put(r.leaf, <<tree, index>>, commitment)
        /\ i.frontier = Put(r.frontier, tree,
                            NewFrontier(Frontier(r, tree), commitment, index, depth))
        /\ i.used = r.used
        /\ i.rootSlot = SlotsAfterLeaf(r, tree, commitment, depth)
    BY <1>1, <1>2, <1>3, InsertLeafFacts DEF Good
  <1>6. g = [i EXCEPT !.used = i.used \cup {commitment}] /\ HasForestFields(i)
    BY <1>1, <1>2, <1>5 DEF InsertNote, Slotted
  <1>7. /\ g.treeCount = i.treeCount /\ g.activeTreeId = i.activeTreeId
        /\ g.nextIndex = i.nextIndex /\ g.leaf = i.leaf /\ g.frontier = i.frontier
        /\ g.rootSlot = i.rootSlot /\ g.used = i.used \cup {commitment}
    BY <1>6 DEF HasForestFields
  <1> QED
    BY <1>1, <1>4, <1>5, <1>7 DEF NoteInserted

(* What a step leaves of the trees before the newest one: their counters *)
(* and their current roots.                                              *)
RetiredSame(f, g) ==
    \A tree \in 0..(f.treeCount - 2) :
        /\ g.nextIndex[tree] = f.nextIndex[tree]
        /\ g.rootSlot[TreeRootKey(tree)] = f.rootSlot[TreeRootKey(tree)]

(* A new tree leaves every other tree alone, the active one included. *)
LEMMA CreateTreeElsewhere ==
    ASSUME NEW f, Good(f), NEW depth, NEW g, g = CreateTree(f, depth)
    PROVE  \A tree \in Trees(f) :
              /\ g.nextIndex[tree] = f.nextIndex[tree]
              /\ g.rootSlot[TreeRootKey(tree)] = f.rootSlot[TreeRootKey(tree)]
  <1> SUFFICES ASSUME NEW tree \in Trees(f)
               PROVE  /\ g.nextIndex[tree] = f.nextIndex[tree]
                      /\ g.rootSlot[TreeRootKey(tree)] = f.rootSlot[TreeRootKey(tree)]
    OBVIOUS
  <1>1. /\ tree \in DOMAIN f.nextIndex /\ tree # f.treeCount
        /\ TreeRootKey(tree) \in DOMAIN f.rootSlot
    BY DEF Good, ForestShapeOK, CountersOK, SlotsOK, Trees
  <1>2. TreeRootKey(tree) # TreeRootKey(f.treeCount)
    BY <1>1 DEF TreeRootKey
  <1>3. /\ g.nextIndex = Put(f.nextIndex, f.treeCount, 0)
        /\ \A key \in DOMAIN f.rootSlot :
             key # TreeRootKey(f.treeCount) => g.rootSlot[key] = f.rootSlot[key]
    BY CreateTreeFacts DEF Good
  <1> QED
    BY <1>1, <1>2, <1>3, PutElsewhere

(* A leaf leaves every tree but its own alone. *)
LEMMA InsertLeafElsewhere ==
    ASSUME NEW f, Good(f), NEW tree \in Trees(f), NEW commitment,
           NEW depth, NEW g, g = InsertLeafIntoTree(f, tree, commitment, depth),
           NEW t, t \in Trees(f), t # tree
    PROVE  /\ g.nextIndex[t] = f.nextIndex[t]
           /\ g.rootSlot[TreeRootKey(t)] = f.rootSlot[TreeRootKey(t)]
  <1>1. PICK index : index = TreeNextIndex(f, tree)
    OBVIOUS
  <1>2. /\ t \in DOMAIN f.nextIndex /\ TreeRootKey(t) \in DOMAIN f.rootSlot
        /\ Slotted(f)
    BY DEF Good, ForestShapeOK, CountersOK, SlotsOK
  <1>3. PICK root : root = NewRoot(Frontier(f, tree), commitment, index, depth)
    OBVIOUS
  <1>4. PICK slots : slots = Put(f.rootSlot, TreeRootKey(tree), root)
    OBVIOUS
  <1>5. /\ Slotted(g) /\ IndexKept(f, g)
        /\ g.treeCount = f.treeCount /\ g.activeTreeId = f.activeTreeId
        /\ g.nextIndex = Put(f.nextIndex, tree, index + 1)
        /\ g.leaf = Put(f.leaf, <<tree, index>>, commitment)
        /\ g.rootSlot = SlotsAfterLeaf(f, tree, commitment, depth)
    BY <1>1, <1>2, InsertLeafFacts
  <1>6. g.rootSlot = Put(slots, RootHistoryKey(tree, index % MaxRootHistory), root)
    BY <1>1, <1>3, <1>4, <1>5 DEF SlotsAfterLeaf
  <1>7. /\ TreeRootKey(t) # TreeRootKey(tree)
        /\ TreeRootKey(t) # RootHistoryKey(tree, index % MaxRootHistory)
    BY DEF TreeRootKey, RootHistoryKey
  <1>8. TreeRootKey(t) \in DOMAIN slots /\ slots[TreeRootKey(t)] = f.rootSlot[TreeRootKey(t)]
    BY <1>2, <1>4, <1>7, PutElsewhere
  <1> QED
    BY <1>2, <1>5, <1>7, <1>8, <1>6, PutElsewhere

(* A whole insertion leaves the retired trees alone: the leaf goes to the  *)
(* newest tree, or to one that was not there before.                       *)
LEMMA InsertNoteElsewhere ==
    ASSUME NEW f, Good(f), NEW commitment, NEW depth,
           NEW g, g = InsertNote(f, commitment, depth)
    PROVE  RetiredSame(f, g)
  <1>1. PICK e : e = EnsureTreeExists(f, depth)
    OBVIOUS
  <1>2. PICK r : r = ForestWithRoom(f, depth)
    OBVIOUS
  <1>3. PICK i : i = InsertLeafIntoTree(r, r.activeTreeId, commitment, depth)
    OBVIOUS
  <1>4. f.treeCount \in Nat
    BY DEF Good, ForestShapeOK, CountersOK
  <1>5. CASE f.treeCount = 0
    <2>1. 0..(f.treeCount - 2) = {}
      BY <1>5
    <2> QED
      BY <2>1 DEF RetiredSame
  <1>6. CASE f.treeCount # 0
    <2> SUFFICES ASSUME NEW tree \in 0..(f.treeCount - 2)
                 PROVE  /\ g.nextIndex[tree] = f.nextIndex[tree]
                        /\ g.rootSlot[TreeRootKey(tree)] = f.rootSlot[TreeRootKey(tree)]
      BY DEF RetiredSame
    <2>1. e = f /\ tree \in Trees(f)
      BY <1>1, <1>4, <1>6 DEF EnsureTreeExists, Trees
    <2>2. Good(r) /\ r.activeTreeId \in Trees(r)
      BY <1>2, ForestWithRoomGood
    <2>3. /\ r.treeCount >= f.treeCount /\ r.treeCount \in Nat
          /\ r.nextIndex[tree] = f.nextIndex[tree]
          /\ r.rootSlot[TreeRootKey(tree)] = f.rootSlot[TreeRootKey(tree)]
      <3>1. CASE TreeFull(e, e.activeTreeId, depth)
        <4>1. r = CreateTree(f, depth)
          BY <1>1, <1>2, <2>1, <3>1 DEF ForestWithRoom
        <4>2. r.treeCount = f.treeCount + 1
          BY <4>1, CreateTreeGood
        <4> QED
          BY <4>1, <4>2, <2>1, <1>4, CreateTreeElsewhere
      <3>2. CASE ~ TreeFull(e, e.activeTreeId, depth)
        <4>1. r = f
          BY <1>1, <1>2, <2>1, <3>2 DEF ForestWithRoom
        <4> QED
          BY <4>1, <1>4
      <3> QED
        BY <3>1, <3>2
    <2>4. r.activeTreeId = r.treeCount - 1
      BY <2>2, <2>3, <1>4, <1>6 DEF Good, ForestShapeOK, CountersOK
    <2>5. tree \in Trees(r) \ {r.activeTreeId}
      BY <2>3, <2>4, <1>4 DEF Trees
    <2>6. /\ i.nextIndex[tree] = r.nextIndex[tree]
          /\ i.rootSlot[TreeRootKey(tree)] = r.rootSlot[TreeRootKey(tree)]
      <3>1. PICK active : active = r.activeTreeId
        OBVIOUS
      <3>2. i = InsertLeafIntoTree(r, active, commitment, depth)
        BY <1>3, <3>1
      <3>3. active \in Trees(r) /\ tree \in Trees(r) /\ tree # active
        BY <2>2, <2>5, <3>1
      <3> QED
        BY <2>2, <3>2, <3>3, InsertLeafElsewhere
    <2>7. g = [i EXCEPT !.used = i.used \cup {commitment}]
      BY <1>2, <1>3 DEF InsertNote
    <2>8. HasForestFields(i)
      BY <1>3, <2>2, InsertLeafGood DEF Good, Slotted
    <2>9. g.nextIndex = i.nextIndex /\ g.rootSlot = i.rootSlot
      BY <2>7, <2>8 DEF HasForestFields
    <2> QED
      BY <2>3, <2>6, <2>9
  <1> QED
    BY <1>5, <1>6

(* A note among notes. *)
LEMMA InsertNoteNotes ==
    ASSUME NEW f, Good(f), LeavesAreNotes(f), NEW commitment \in Commitment, NEW depth,
           NEW g, g = InsertNote(f, commitment, depth)
    PROVE  LeavesAreNotes(g)
  <1>1. PICK key : g.leaf = Put(f.leaf, key, commitment)
    BY InsertNoteLeaf
  <1>2. g.used = f.used \cup {commitment}
    BY InsertNoteLeaf
  <1> QED
    BY <1>1, <1>2 DEF LeavesAreNotes, Put

(* A commitment that was not used before keeps the leaves unique. *)
LEMMA InsertNoteUnique ==
    ASSUME NEW f, Good(f), UniqueLeaves(f),
           NEW commitment, CanInsertNote(f, commitment), NEW depth,
           NEW g, g = InsertNote(f, commitment, depth)
    PROVE  UniqueLeaves(g)
  <1>1. PICK key : key \notin DOMAIN f.leaf /\ g.leaf = Put(f.leaf, key, commitment)
    BY InsertNoteLeaf
  <1>2. g.used = f.used \cup {commitment}
    BY InsertNoteLeaf
  <1>3. /\ DOMAIN g.leaf = DOMAIN f.leaf \cup {key}
        /\ g.leaf[key] = commitment
        /\ \A k \in DOMAIN f.leaf : g.leaf[k] = f.leaf[k]
    BY <1>1 DEF Put
  <1>4. \A k \in DOMAIN f.leaf : f.leaf[k] \in f.used /\ f.leaf[k] # commitment
    BY DEF UniqueLeaves, CanInsertNote
  <1>5. g.used = {g.leaf[k] : k \in DOMAIN g.leaf}
    BY <1>2, <1>3 DEF UniqueLeaves
  <1>6. ASSUME NEW k1 \in DOMAIN g.leaf, NEW k2 \in DOMAIN g.leaf,
               g.leaf[k1] = g.leaf[k2]
        PROVE  k1 = k2
    BY <1>3, <1>4, <1>6 DEF UniqueLeaves
  <1> QED
    BY <1>5, <1>6 DEF UniqueLeaves

(* A rebuild finds every slot, all of them being slots of existing trees: *)
(* it makes any index exact and changes nothing else.                     *)
LEMMA RebuildGood ==
    ASSUME NEW f, Good(f), NEW g, g = RebuildRootIndex(f)
    PROVE  /\ Good(g) /\ Exact(g) /\ Undercounts(g)
           /\ g.treeCount = f.treeCount /\ g.activeTreeId = f.activeTreeId
           /\ g.nextIndex = f.nextIndex /\ g.leaf = f.leaf /\ g.frontier = f.frontier
           /\ g.used = f.used /\ g.rootSlot = f.rootSlot
           /\ Exact(f) => g = f
  <1>1. ScannedKeys(f.treeCount) \cap DOMAIN f.rootSlot = DOMAIN f.rootSlot
    BY DEF Good, ForestShapeOK, SlotsOK
  <1>2. [key \in DOMAIN f.rootSlot |-> f.rootSlot[key]] = f.rootSlot
    BY DEF Good, Slotted
  <1>3. PICK index : index = CountHolders(f.rootSlot)
    OBVIOUS
  <1>4. g = [f EXCEPT !.rootIndex = index] /\ HasForestFields(f)
    BY <1>1, <1>2, <1>3 DEF RebuildRootIndex, Good, Slotted
  <1>5. /\ g.treeCount = f.treeCount /\ g.activeTreeId = f.activeTreeId
        /\ g.nextIndex = f.nextIndex /\ g.leaf = f.leaf /\ g.frontier = f.frontier
        /\ g.used = f.used /\ g.rootSlot = f.rootSlot /\ g.rootIndex = index
        /\ HasForestFields(g)
    BY <1>4 DEF HasForestFields
  <1>6. Slotted(g)
    BY <1>5 DEF Good, Slotted
  <1>7. Trees(g) = Trees(f)
    BY <1>5 DEF Trees
  <1>8. Good(g)
    BY <1>5, <1>6, <1>7 DEF Good, ForestShapeOK, CountersOK, LeavesOK, SlotsOK
  <1>9. Exact(g)
    BY <1>3, <1>5 DEF Exact
  <1>10. Exact(f) => g = f
    BY <1>3, <1>4, <1>5 DEF Exact, HasForestFields
  <1> QED
    BY <1>5, <1>6, <1>8, <1>9, <1>10, ExactUndercounts

(* In an exact index, the roots counted are the roots held. *)
LEMMA CountedIsHeld ==
    ASSUME NEW f, Slotted(f), Exact(f), NEW root
    PROVE  RootRefCount(f.rootIndex, root) > 0 <=> root \in HeldRoots(f.rootSlot)
  <1>1. CASE root \in HeldRoots(f.rootSlot)
    <2>1. RootRefCount(f.rootIndex, root) = Cardinality(Holders(f.rootSlot, root))
      BY <1>1 DEF Exact, RootRefCount, Get, CountHolders
    <2> QED
      BY <1>1, <2>1, HoldersFinite DEF Slotted
  <1>2. CASE root \notin HeldRoots(f.rootSlot)
    BY <1>2 DEF Exact, RootRefCount, Get, CountHolders
  <1> QED
    BY <1>1, <1>2

-----------------------------------------------------------------------------
(***************************************************************************)
(* Roots, while the depth never changes.                                   *)
(***************************************************************************)

(* The first n leaves of a tree, in order. *)
First(f, tree, n) == [i \in 1..n |-> f.leaf[<<tree, i - 1>>]]

(* A tree's frontier is right for its next leaf, its root is that of its    *)
(* leaves, and each ring slot holds the root of the leaves there were then. *)
TreeRight(f, tree, depth) ==
    LET next == f.nextIndex[tree]
    IN  /\ next <= Width[depth]
        /\ FrontierOK(f.frontier[tree], First(f, tree, next), depth)
        /\ f.rootSlot[TreeRootKey(tree)] = MerkleRoot(First(f, tree, next), depth)
        /\ \A n \in 1..next : n > next - MaxRootHistory =>
              LET key == RootHistoryKey(tree, (n - 1) % MaxRootHistory)
              IN  /\ key \in DOMAIN f.rootSlot
                  /\ f.rootSlot[key] = MerkleRoot(First(f, tree, n), depth)

TreesRight(f, depth) == \A tree \in Trees(f) : TreeRight(f, tree, depth)

(* The first n leaves of a tree are n, in the order of their indices. *)
LEMMA FirstLength ==
    ASSUME NEW f, NEW tree, NEW n \in Nat
    PROVE  /\ Len(First(f, tree, n)) = n
           /\ \A i \in 1..n : First(f, tree, n)[i] = f.leaf[<<tree, i - 1>>]
  BY DEF First

(* What another forest leaves of a tree. *)
TreeSame(f, g, tree) ==
    /\ g.nextIndex[tree] = f.nextIndex[tree]
    /\ g.frontier[tree] = f.frontier[tree]
    /\ \A i \in 0..(f.nextIndex[tree] - 1) : g.leaf[<<tree, i>>] = f.leaf[<<tree, i>>]
    /\ \A slot : LET key == RootHistoryKey(tree, slot)
                 IN  key \in DOMAIN f.rootSlot =>
                        key \in DOMAIN g.rootSlot /\ g.rootSlot[key] = f.rootSlot[key]
    /\ g.rootSlot[TreeRootKey(tree)] = f.rootSlot[TreeRootKey(tree)]

(* A tree that is left alone stays right. *)
LEMMA SameStaysRight ==
    ASSUME NEW f, NEW g, NEW tree, NEW depth,
           f.nextIndex[tree] \in Nat, TreeSame(f, g, tree), TreeRight(f, tree, depth)
    PROVE  TreeRight(g, tree, depth)
  <1>1. PICK next \in Nat : next = f.nextIndex[tree] /\ next = g.nextIndex[tree]
    BY DEF TreeSame
  <1>2. ASSUME NEW n \in 0..next PROVE First(g, tree, n) = First(f, tree, n)
    <2>1. \A i \in 1..n : i - 1 \in 0..(next - 1)
      OBVIOUS
    <2>2. \A i \in 1..n : g.leaf[<<tree, i - 1>>] = f.leaf[<<tree, i - 1>>]
      BY <1>1, <2>1 DEF TreeSame
    <2> QED
      BY <2>2 DEF First
  <1>3. First(g, tree, next) = First(f, tree, next)
    BY <1>2
  <1>4. /\ next <= Width[depth]
        /\ FrontierOK(f.frontier[tree], First(f, tree, next), depth)
        /\ f.rootSlot[TreeRootKey(tree)] = MerkleRoot(First(f, tree, next), depth)
    BY <1>1 DEF TreeRight
  <1>5. ASSUME NEW n \in 1..next, n > next - MaxRootHistory,
               NEW key, key = RootHistoryKey(tree, (n - 1) % MaxRootHistory)
        PROVE  /\ key \in DOMAIN g.rootSlot
               /\ g.rootSlot[key] = MerkleRoot(First(g, tree, n), depth)
    <2>1. /\ key \in DOMAIN f.rootSlot
          /\ f.rootSlot[key] = MerkleRoot(First(f, tree, n), depth)
      BY <1>1, <1>5 DEF TreeRight
    <2>2. First(g, tree, n) = First(f, tree, n)
      BY <1>2
    <2> QED
      BY <1>5, <2>1, <2>2 DEF TreeSame
  <1> QED
    BY <1>1, <1>3, <1>4, <1>5 DEF TreeSame, TreeRight

(* A tree without leaves is right as CreateTree leaves it. *)
LEMMA EmptyTreeRight ==
    ASSUME NEW f, NEW tree, NEW depth \in Nat, f.nextIndex[tree] = 0,
           f.rootSlot[TreeRootKey(tree)] = ZeroHash[depth]
    PROVE  TreeRight(f, tree, depth)
  <1>1. PICK leaves : leaves = First(f, tree, 0)
    OBVIOUS
  <1>2. Len(leaves) = 0
    BY <1>1, FirstLength
  <1>3. FrontierOK(f.frontier[tree], leaves, depth)
    BY <1>2, AnyFrontierOfNone
  <1>4. MerkleRoot(leaves, depth) = ZeroHash[depth]
    BY <1>2, EmptyTreeRoot
  <1>5. 0 <= Width[depth] /\ 1..0 = {}
    BY WidthEquation
  <1> QED
    BY <1>1, <1>3, <1>4, <1>5 DEF TreeRight

(* A new tree leaves the others alone. *)
LEMMA CreateTreeSame ==
    ASSUME NEW f, NEW depth, NEW g, Good(f), g = CreateTree(f, depth), NEW tree \in Trees(f)
    PROVE  TreeSame(f, g, tree)
  <1>1. PICK new : new = f.treeCount /\ new \in Nat
    BY DEF Good, ForestShapeOK, CountersOK
  <1>2. /\ g.nextIndex = Put(f.nextIndex, f.treeCount, 0)
        /\ g.frontier = Put(f.frontier, f.treeCount, EmptyFrontier(depth))
        /\ g.rootSlot = Put(f.rootSlot, TreeRootKey(f.treeCount), ZeroHash[depth])
        /\ g.leaf = f.leaf
    BY CreateTreeFacts DEF Good
  <1>3. /\ tree # new /\ tree \in DOMAIN f.nextIndex /\ tree \in DOMAIN f.frontier
        /\ TreeRootKey(tree) \in DOMAIN f.rootSlot
    BY <1>1 DEF Good, ForestShapeOK, CountersOK, SlotsOK, Trees
  <1>4. g.nextIndex[tree] = f.nextIndex[tree] /\ g.frontier[tree] = f.frontier[tree]
    BY <1>1, <1>2, <1>3, PutElsewhere
  <1>5. TreeRootKey(tree) # TreeRootKey(new)
    BY <1>3 DEF TreeRootKey
  <1>6. g.rootSlot[TreeRootKey(tree)] = f.rootSlot[TreeRootKey(tree)]
    BY <1>1, <1>2, <1>3, <1>5, PutElsewhere
  <1>7. ASSUME NEW slot, NEW key, key = RootHistoryKey(tree, slot), key \in DOMAIN f.rootSlot
        PROVE  key \in DOMAIN g.rootSlot /\ g.rootSlot[key] = f.rootSlot[key]
    <2>1. key # TreeRootKey(new)
      BY <1>7 DEF TreeRootKey, RootHistoryKey
    <2> QED
      BY <1>1, <1>2, <1>7, <2>1, PutElsewhere
  <1> QED
    BY <1>2, <1>4, <1>6, <1>7 DEF TreeSame

(* A new tree is right, as an empty tree is, and leaves the others so. *)
LEMMA CreateTreeRight ==
    ASSUME NEW f, NEW depth \in Nat, NEW g,
           Good(f), TreesRight(f, depth), g = CreateTree(f, depth)
    PROVE  TreesRight(g, depth)
  <1>1. PICK new : new = f.treeCount /\ new \in Nat
    BY DEF Good, ForestShapeOK, CountersOK
  <1>2. /\ g.treeCount = f.treeCount + 1
        /\ g.nextIndex = Put(f.nextIndex, f.treeCount, 0)
        /\ g.rootSlot = Put(f.rootSlot, TreeRootKey(f.treeCount), ZeroHash[depth])
    BY CreateTreeFacts DEF Good
  <1>3. Trees(g) = Trees(f) \cup {new}
    BY <1>1, <1>2 DEF Trees
  <1>4. TreeRight(g, new, depth)
    <2>1. g.nextIndex[new] = 0 /\ g.rootSlot[TreeRootKey(new)] = ZeroHash[depth]
      BY <1>1, <1>2 DEF Put
    <2> QED
      BY <2>1, EmptyTreeRight
  <1>5. ASSUME NEW tree \in Trees(f) PROVE TreeRight(g, tree, depth)
    <2>1. f.nextIndex[tree] \in Nat /\ TreeRight(f, tree, depth)
      BY DEF Good, ForestShapeOK, CountersOK, TreesRight
    <2> QED
      BY <2>1, CreateTreeSame, SameStaysRight
  <1> QED
    BY <1>3, <1>4, <1>5 DEF TreesRight

(* Two of the last `size` insertions write different ring positions. *)
LEMMA RingPositionsDiffer ==
    ASSUME NEW a \in Nat, NEW b \in Nat, NEW size \in Nat \ {0}, a < b, b - a < size
    PROVE  a % size # b % size
  <1>1. PICK p, q : p = a \div size /\ q = b \div size
    OBVIOUS
  <1>2. p \in Nat /\ q \in Nat /\ a = size * p + (a % size) /\ b = size * q + (b % size)
    BY <1>1
  <1> SUFFICES ASSUME a % size = b % size PROVE FALSE
    OBVIOUS
  <1>3. b - a = size * (q - p)
    BY <1>2
  <1>4. CASE q - p <= 0
    BY <1>2, <1>3, <1>4
  <1>5. CASE q - p >= 1
    <2>1. size * (q - p) >= size
      BY <1>2, <1>5
    <2> QED
      BY <1>3, <2>1
  <1> QED
    BY <1>2, <1>4, <1>5

(* The tree that gets the leaf: its list is longer by it, and the frontier, *)
(* the root and the ring are those of the longer list.                      *)
LEMMA InsertedTreeRight ==
    ASSUME NEW r, NEW tree, NEW n \in Nat, NEW commitment, NEW depth \in Nat, NEW g,
           tree = r.activeTreeId, n = r.nextIndex[tree], n < Width[depth],
           TreeRight(r, tree, depth),
           tree \in DOMAIN r.nextIndex, tree \in DOMAIN r.frontier,
           \A i \in 0..(n - 1) : <<tree, i>> \in DOMAIN r.leaf,
           NoteInserted(r, g, commitment, depth)
    PROVE  TreeRight(g, tree, depth)
  <1>1. PICK a, b : a = First(r, tree, n) /\ b = First(g, tree, n + 1)
    OBVIOUS
  <1>2. PICK root : root = NewRoot(r.frontier[tree], commitment, n, depth)
    OBVIOUS
  <1>3. /\ g.nextIndex = Put(r.nextIndex, tree, n + 1)
        /\ g.leaf = Put(r.leaf, <<tree, n>>, commitment)
        /\ g.frontier = Put(r.frontier, tree,
                            NewFrontier(r.frontier[tree], commitment, n, depth))
        /\ g.rootSlot = Put(Put(r.rootSlot, TreeRootKey(tree), root),
                            RootHistoryKey(tree, n % MaxRootHistory), root)
    <2>1. Frontier(r, tree) = r.frontier[tree] /\ TreeNextIndex(r, tree) = n
      BY DEF Frontier, TreeNextIndex, Get
    <2> QED
      BY <1>2, <2>1 DEF NoteInserted, SlotsAfterLeaf
  <1>4. /\ Len(a) = n /\ Len(b) = n + 1
        /\ \A i \in 1..n : a[i] = r.leaf[<<tree, i - 1>>]
        /\ \A i \in 1..(n + 1) : b[i] = g.leaf[<<tree, i - 1>>]
    BY <1>1, FirstLength
  <1>5. \A m \in 1..n : First(g, tree, m) = First(r, tree, m)
    <2> TAKE m \in 1..n
    <2>1. ASSUME NEW i \in 1..m PROVE g.leaf[<<tree, i - 1>>] = r.leaf[<<tree, i - 1>>]
      <3>1. i - 1 \in 0..(n - 1)
        OBVIOUS
      <3>2. <<tree, i - 1>> \in DOMAIN r.leaf /\ <<tree, i - 1>> # <<tree, n>>
        BY <3>1
      <3> QED
        BY <1>3, <3>2, PutElsewhere
    <2> QED
      BY <2>1 DEF First
  <1>6. Extends(b, a, commitment)
    <2>1. ASSUME NEW i \in 1..n PROVE b[i] = a[i]
      <3>1. i - 1 \in 0..(n - 1) /\ i \in 1..(n + 1)
        OBVIOUS
      <3>2. <<tree, i - 1>> \in DOMAIN r.leaf /\ <<tree, i - 1>> # <<tree, n>>
        BY <3>1
      <3>3. g.leaf[<<tree, i - 1>>] = r.leaf[<<tree, i - 1>>]
        BY <1>3, <3>2, PutElsewhere
      <3> QED
        BY <1>4, <3>1, <3>3
    <2>2. n + 1 \in 1..(n + 1) /\ (n + 1) - 1 = n
      OBVIOUS
    <2>3. g.leaf[<<tree, n>>] = commitment
      BY <1>3 DEF Put
    <2>4. b[n + 1] = commitment
      BY <1>4, <2>2, <2>3
    <2> QED
      BY <1>4, <2>1, <2>4 DEF Extends
  <1>7. FrontierOK(r.frontier[tree], a, depth)
    BY <1>1 DEF TreeRight
  <1>8. FrontierOK(g.frontier[tree], b, depth)
    <2>1. g.frontier[tree] = NewFrontier(r.frontier[tree], commitment, n, depth)
      BY <1>3 DEF Put
    <2>2. FrontierOK(NewFrontier(r.frontier[tree], commitment, Len(a), depth), b, depth)
      BY <1>4, <1>6, <1>7, NewFrontierIsRight
    <2> QED
      BY <1>4, <2>1, <2>2
  <1>9. root = MerkleRoot(b, depth)
    <2>1. NewRoot(r.frontier[tree], commitment, Len(a), depth) = MerkleRoot(b, depth)
      BY <1>4, <1>6, <1>7, NewRootIsMerkleRoot
    <2> QED
      BY <1>2, <1>4, <2>1
  <1>10. TreeRootKey(tree) # RootHistoryKey(tree, n % MaxRootHistory)
    BY DEF TreeRootKey, RootHistoryKey
  <1>11. g.rootSlot[TreeRootKey(tree)] = root
    BY <1>3, <1>10 DEF Put
  <1>12. ASSUME NEW m \in 1..(n + 1), m > (n + 1) - MaxRootHistory,
                NEW key, key = RootHistoryKey(tree, (m - 1) % MaxRootHistory)
         PROVE  /\ key \in DOMAIN g.rootSlot
                /\ g.rootSlot[key] = MerkleRoot(First(g, tree, m), depth)
    <2>1. CASE m = n + 1
      <3>1. key = RootHistoryKey(tree, n % MaxRootHistory)
        BY <1>12, <2>1
      <3>2. key \in DOMAIN g.rootSlot /\ g.rootSlot[key] = root
        BY <1>3, <3>1 DEF Put
      <3> QED
        BY <1>1, <1>9, <2>1, <3>2
    <2>2. CASE m # n + 1
      <3>1. m \in 1..n /\ m > n - MaxRootHistory
        BY <1>12, <2>2, RootHistoryAssumption
      <3>2. key \in DOMAIN r.rootSlot /\ r.rootSlot[key] = MerkleRoot(First(r, tree, m), depth)
        BY <1>12, <3>1 DEF TreeRight
      <3>3. (m - 1) % MaxRootHistory # n % MaxRootHistory
        <4>1. m - 1 \in Nat /\ m - 1 < n /\ n - (m - 1) < MaxRootHistory
          BY <1>12, <3>1, RootHistoryAssumption
        <4> QED
          BY <4>1, RingPositionsDiffer, RootHistoryAssumption
      <3>4. /\ key # RootHistoryKey(tree, n % MaxRootHistory)
            /\ key # TreeRootKey(tree)
        BY <1>12, <3>3 DEF RootHistoryKey, TreeRootKey
      <3>5. key \in DOMAIN g.rootSlot /\ g.rootSlot[key] = r.rootSlot[key]
        BY <1>3, <3>2, <3>4 DEF Put
      <3>6. First(g, tree, m) = First(r, tree, m)
        BY <1>5, <3>1
      <3> QED
        BY <3>2, <3>5, <3>6
    <2> QED
      BY <2>1, <2>2
  <1>13. g.nextIndex[tree] = n + 1
    BY <1>3 DEF Put
  <1>14. n + 1 <= Width[depth]
    <2>1. PICK w \in Nat : w = Width[depth]
      BY WidthEquation
    <2> QED
      BY <2>1
  <1> QED
    BY <1>1, <1>8, <1>9, <1>11, <1>12, <1>13, <1>14 DEF TreeRight

(* Every other tree is left alone by it. *)
LEMMA InsertedElsewhere ==
    ASSUME NEW r, NEW commitment, NEW depth, NEW g, NEW tree \in Trees(r),
           Good(r), r.activeTreeId \in Trees(r), NoteInserted(r, g, commitment, depth),
           tree # r.activeTreeId
    PROVE  TreeSame(r, g, tree)
  <1>1. PICK active, n : active = r.activeTreeId /\ n = r.nextIndex[active]
    OBVIOUS
  <1>2. PICK nodes, root : /\ nodes = NewFrontier(Frontier(r, active), commitment, n, depth)
                           /\ root = NewRoot(Frontier(r, active), commitment,
                                             TreeNextIndex(r, active), depth)
    OBVIOUS
  <1>3. PICK key : key = RootHistoryKey(active, TreeNextIndex(r, active) % MaxRootHistory)
    OBVIOUS
  <1>4. PICK slots : slots = Put(r.rootSlot, TreeRootKey(active), root)
    OBVIOUS
  <1>5. /\ g.nextIndex = Put(r.nextIndex, active, n + 1)
        /\ g.leaf = Put(r.leaf, <<active, n>>, commitment)
        /\ g.frontier = Put(r.frontier, active, nodes)
        /\ g.rootSlot = Put(slots, key, root)
    BY <1>1, <1>2, <1>3, <1>4 DEF NoteInserted, SlotsAfterLeaf
  <1>6. /\ tree \in DOMAIN r.nextIndex /\ tree \in DOMAIN r.frontier
        /\ TreeRootKey(tree) \in DOMAIN r.rootSlot
        /\ \A i \in 0..(r.nextIndex[tree] - 1) : <<tree, i>> \in DOMAIN r.leaf
    BY DEF Good, ForestShapeOK, CountersOK, SlotsOK, LeavesOK
  <1>7. g.nextIndex[tree] = r.nextIndex[tree] /\ g.frontier[tree] = r.frontier[tree]
    BY <1>1, <1>5, <1>6, PutElsewhere
  <1>8. \A i \in 0..(r.nextIndex[tree] - 1) : g.leaf[<<tree, i>>] = r.leaf[<<tree, i>>]
    <2> TAKE i \in 0..(r.nextIndex[tree] - 1)
    <2>1. <<tree, i>> \in DOMAIN r.leaf /\ <<tree, i>> # <<active, n>>
      BY <1>1, <1>6
    <2> QED
      BY <1>5, <2>1, PutElsewhere
  <1>9. ASSUME NEW k \in DOMAIN r.rootSlot, k # TreeRootKey(active), k # key
        PROVE  k \in DOMAIN g.rootSlot /\ g.rootSlot[k] = r.rootSlot[k]
    <2>1. k \in DOMAIN slots /\ slots[k] = r.rootSlot[k]
      BY <1>4, <1>9, PutElsewhere
    <2> QED
      BY <1>5, <1>9, <2>1, PutElsewhere
  <1>10. g.rootSlot[TreeRootKey(tree)] = r.rootSlot[TreeRootKey(tree)]
    <2>1. TreeRootKey(tree) # TreeRootKey(active) /\ TreeRootKey(tree) # key
      BY <1>1, <1>3 DEF TreeRootKey, RootHistoryKey
    <2> QED
      BY <1>6, <1>9, <2>1
  <1>11. ASSUME NEW slot, NEW k, k = RootHistoryKey(tree, slot), k \in DOMAIN r.rootSlot
         PROVE  k \in DOMAIN g.rootSlot /\ g.rootSlot[k] = r.rootSlot[k]
    <2>1. k # TreeRootKey(active) /\ k # key
      BY <1>1, <1>3, <1>11 DEF TreeRootKey, RootHistoryKey
    <2> QED
      BY <1>9, <1>11, <2>1
  <1> QED
    BY <1>7, <1>8, <1>10, <1>11 DEF TreeSame

(* A whole insertion at the one depth keeps every tree right. *)
LEMMA InsertNoteRight ==
    ASSUME NEW f, NEW commitment, NEW depth \in Nat, NEW g,
           Good(f), TreesRight(f, depth), g = InsertNote(f, commitment, depth)
    PROVE  TreesRight(g, depth)
  <1>1. PICK r : r = ForestWithRoom(f, depth)
    OBVIOUS
  <1>2. TreesRight(r, depth)
    <2>1. PICK e : /\ e = f \/ e = CreateTree(f, depth)
                   /\ r = e \/ r = CreateTree(e, depth)
      BY <1>1, RoomSteps
    <2>2. Good(e) /\ TreesRight(e, depth)
      BY <2>1, CreateTreeGood, CreateTreeRight
    <2> QED
      BY <2>1, <2>2, CreateTreeRight
  <1>3. PICK tree : tree = r.activeTreeId
    OBVIOUS
  <1>4. Good(r) /\ tree \in Trees(r)
    BY <1>1, <1>3, ForestWithRoomGood
  <1>5. PICK n \in Nat : n = r.nextIndex[tree] /\ n < Width[depth]
    BY <1>1, <1>3, RoomThere
  <1>6. NoteInserted(r, g, commitment, depth)
    BY <1>1, InsertNoteWrites
  <1>7. Trees(g) = Trees(r)
    BY <1>6 DEF NoteInserted, Trees
  <1>8. TreeRight(g, tree, depth)
    <2>1. /\ tree \in DOMAIN r.nextIndex /\ tree \in DOMAIN r.frontier
          /\ \A i \in 0..(n - 1) : <<tree, i>> \in DOMAIN r.leaf
      BY <1>4, <1>5 DEF Good, ForestShapeOK, CountersOK, LeavesOK
    <2>2. TreeRight(r, tree, depth)
      BY <1>2, <1>4 DEF TreesRight
    <2> QED
      BY <1>3, <1>5, <1>6, <2>1, <2>2, InsertedTreeRight
  <1>9. ASSUME NEW t \in Trees(r), t # tree PROVE TreeRight(g, t, depth)
    <2>1. TreeSame(r, g, t)
      BY <1>3, <1>4, <1>6, <1>9, InsertedElsewhere
    <2>2. r.nextIndex[t] \in Nat /\ TreeRight(r, t, depth)
      BY <1>2, <1>4 DEF Good, ForestShapeOK, CountersOK, TreesRight
    <2> QED
      BY <2>1, <2>2, SameStaysRight
  <1> QED
    BY <1>7, <1>8, <1>9 DEF TreesRight

-----------------------------------------------------------------------------
(***************************************************************************)
(* The ring of recent roots.                                               *)
(***************************************************************************)

(* The latest roots of a tree, oldest first, as the ring holds them. *)
Ring(f, tree) ==
    LET next == f.nextIndex[tree]
        size == IF next < MaxRootHistory THEN next ELSE MaxRootHistory
    IN  [i \in 1..size |->
            f.rootSlot[RootHistoryKey(tree, (next - size + i - 1) % MaxRootHistory)]]

(* The ring of a tree was written at every index below the counter, and at *)
(* no other; what it holds was written within the last MaxRootHistory.     *)
RingDense(f, tree) ==
    /\ \A n \in 0..(f.nextIndex[tree] - 1) :
          RootHistoryKey(tree, n % MaxRootHistory) \in DOMAIN f.rootSlot
    /\ \A slot : RootHistoryKey(tree, slot) \in DOMAIN f.rootSlot =>
          \E n \in 0..(f.nextIndex[tree] - 1) :
             n >= f.nextIndex[tree] - MaxRootHistory /\ slot = n % MaxRootHistory

(* The last MaxRootHistory elements of a sequence. *)
LastRoots(roots) ==
    IF Len(roots) <= MaxRootHistory THEN roots
    ELSE SubSeq(roots, Len(roots) - MaxRootHistory + 1, Len(roots))

(* A tree gets a new root. *)
GainsRoot(f, g, tree, root) ==
    /\ Ring(g, tree) = LastRoots(Append(Ring(f, tree), root))
    /\ Len(Ring(g, tree)) \in Nat \ {0}
    /\ Ring(g, tree)[Len(Ring(g, tree))] = root

(* The window of a tree moves by one when the next slot is written and those *)
(* of the last MaxRootHistory - 1 roots are left alone.                      *)
LEMMA RingWindow ==
    ASSUME NEW f, NEW g, NEW tree, NEW n \in Nat, NEW root,
           f.nextIndex[tree] = n, g.nextIndex[tree] = n + 1,
           g.rootSlot[RootHistoryKey(tree, n % MaxRootHistory)] = root,
           \A k \in Nat : k < n /\ n - k < MaxRootHistory =>
                g.rootSlot[RootHistoryKey(tree, k % MaxRootHistory)] =
                f.rootSlot[RootHistoryKey(tree, k % MaxRootHistory)]
    PROVE  GainsRoot(f, g, tree, root)
  <1> SUFFICES /\ Ring(g, tree) = LastRoots(Append(Ring(f, tree), root))
               /\ Len(Ring(g, tree)) \in Nat \ {0}
               /\ Ring(g, tree)[Len(Ring(g, tree))] = root
    BY DEF GainsRoot
  <1>1. PICK m \in Nat \ {0} : m = MaxRootHistory
    BY RootHistoryAssumption
  <1>2. PICK old, new : old = Ring(f, tree) /\ new = Ring(g, tree)
    OBVIOUS
  <1>4. CASE n < m
    <2>1. old = [i \in 1..n |-> f.rootSlot[RootHistoryKey(tree, (n - n + i - 1) % m)]]
      BY <1>1, <1>2, <1>4 DEF Ring
    <2>2. new = [i \in 1..(n + 1) |->
                   g.rootSlot[RootHistoryKey(tree, (n + 1 - (n + 1) + i - 1) % m)]]
      <3>1. (IF n + 1 < m THEN n + 1 ELSE m) = n + 1
        BY <1>4
      <3> QED
        BY <1>1, <1>2, <3>1 DEF Ring
    <2>3. Append(old, root) = [i \in 1..(n + 1) |-> IF i = n + 1 THEN root ELSE old[i]]
      BY <2>1
    <2>4. ASSUME NEW i \in 1..(n + 1) PROVE new[i] = IF i = n + 1 THEN root ELSE old[i]
      <3>1. PICK k \in Nat : k = i - 1
        OBVIOUS
      <3>2. new[i] = g.rootSlot[RootHistoryKey(tree, k % m)]
        <4>1. n + 1 - (n + 1) + i - 1 = k
          BY <3>1
        <4> QED
          BY <2>2, <4>1
      <3>3. CASE i = n + 1
        <4>1. k = n
          BY <3>1, <3>3
        <4> QED
          BY <1>1, <3>2, <3>3, <4>1
      <3>4. CASE i # n + 1
        <4>1. k < n /\ n - k < m /\ i \in 1..n /\ n - n + i - 1 = k
          BY <1>4, <3>1, <3>4
        <4>2. old[i] = f.rootSlot[RootHistoryKey(tree, k % m)]
          BY <2>1, <4>1
        <4> QED
          BY <1>1, <3>2, <3>4, <4>1, <4>2
      <3> QED
        BY <3>3, <3>4
    <2>5. new = Append(old, root) /\ Len(new) = n + 1 /\ n + 1 <= m
      BY <1>4, <2>2, <2>3, <2>4
    <2>6. new[n + 1] = root
      BY <2>4
    <2> QED
      BY <1>1, <1>2, <2>5, <2>6 DEF LastRoots
  <1>5. CASE ~ (n < m)
    <2>1. old = [i \in 1..m |-> f.rootSlot[RootHistoryKey(tree, (n - m + i - 1) % m)]]
      BY <1>1, <1>2, <1>5 DEF Ring
    <2>0. PICK next \in Nat : next = n + 1 /\ (IF next < m THEN next ELSE m) = m
      BY <1>5
    <2>2. new = [i \in 1..m |->
                   g.rootSlot[RootHistoryKey(tree, (next - m + i - 1) % m)]]
      BY <1>1, <1>2, <2>0 DEF Ring
    <2>3. PICK w : w = Append(old, root)
      OBVIOUS
    <2>4. w = [i \in 1..(m + 1) |-> IF i = m + 1 THEN root ELSE old[i]]
      BY <2>1, <2>3
    <2>5. Len(w) = m + 1 /\ SubSeq(w, 2, m + 1) = [i \in 1..m |-> w[i + 1]]
      BY <2>4
    <2>6. ASSUME NEW i \in 1..m PROVE new[i] = w[i + 1]
      <3>1. PICK k \in Nat : k = n - m + i
        BY <1>5
      <3>2. new[i] = g.rootSlot[RootHistoryKey(tree, k % m)]
        <4>1. next - m + i - 1 = k
          BY <2>0, <3>1
        <4> QED
          BY <2>2, <4>1
      <3>3. CASE i = m
        <4>1. k = n /\ w[i + 1] = root
          BY <2>4, <3>1, <3>3
        <4> QED
          BY <1>1, <3>2, <4>1
      <3>4. CASE i # m
        <4>1. k < n /\ n - k < m /\ i + 1 \in 1..m /\ n - m + (i + 1) - 1 = k
          BY <3>1, <3>4
        <4>2. old[i + 1] = f.rootSlot[RootHistoryKey(tree, k % m)]
          BY <2>1, <4>1
        <4>3. w[i + 1] = old[i + 1]
          BY <2>4, <3>4, <4>1
        <4> QED
          BY <1>1, <3>2, <4>1, <4>2, <4>3
      <3> QED
        BY <3>3, <3>4
    <2>7. new = SubSeq(w, 2, m + 1) /\ Len(new) = m
      BY <2>2, <2>5, <2>6
    <2>8. new[m] = root
      <3>1. m \in 1..m /\ w[m + 1] = root
        BY <2>4
      <3> QED
        BY <2>6, <3>1
    <2>9. ~ (Len(w) <= m) /\ Len(w) - m + 1 = 2
      BY <2>5
    <2>10. LastRoots(w) = SubSeq(w, 2, m + 1)
      BY <1>1, <2>5, <2>9 DEF LastRoots
    <2> QED
      BY <1>2, <2>3, <2>7, <2>8, <2>10
  <1> QED
    BY <1>4, <1>5

(* What leaves a tree's slots and counter alone leaves its window alone. *)
LEMMA SameRing ==
    ASSUME NEW f, NEW g, NEW tree, f.nextIndex[tree] \in Nat,
           TreeSame(f, g, tree), RingDense(f, tree),
           \A slot : RootHistoryKey(tree, slot) \in DOMAIN g.rootSlot =>
                        RootHistoryKey(tree, slot) \in DOMAIN f.rootSlot
    PROVE  RingDense(g, tree) /\ Ring(g, tree) = Ring(f, tree)
  <1>1. PICK n \in Nat : n = f.nextIndex[tree] /\ n = g.nextIndex[tree]
    BY DEF TreeSame
  <1>2. \A slot : RootHistoryKey(tree, slot) \in DOMAIN f.rootSlot =>
           /\ RootHistoryKey(tree, slot) \in DOMAIN g.rootSlot
           /\ g.rootSlot[RootHistoryKey(tree, slot)] = f.rootSlot[RootHistoryKey(tree, slot)]
    BY DEF TreeSame
  <1>3. RingDense(g, tree)
    BY <1>1, <1>2 DEF RingDense
  <1>4. PICK m \in Nat \ {0} : m = MaxRootHistory
    BY RootHistoryAssumption
  <1>5. PICK size \in Nat : size = (IF n < m THEN n ELSE m) /\ size <= n
    OBVIOUS
  <1>6. ASSUME NEW i \in 1..size
        PROVE  f.rootSlot[RootHistoryKey(tree, (n - size + i - 1) % m)] =
               g.rootSlot[RootHistoryKey(tree, (n - size + i - 1) % m)]
    <2>1. PICK k : k = n - size + i - 1
      OBVIOUS
    <2>2. k \in 0..(n - 1)
      BY <1>5, <2>1
    <2>3. RootHistoryKey(tree, k % m) \in DOMAIN f.rootSlot
      BY <1>1, <1>4, <2>2 DEF RingDense
    <2> QED
      BY <1>2, <2>1, <2>3
  <1>7. Ring(f, tree) = [i \in 1..size |-> f.rootSlot[RootHistoryKey(tree, (n - size + i - 1) % m)]]
    BY <1>1, <1>4, <1>5 DEF Ring
  <1>8. Ring(g, tree) = [i \in 1..size |-> g.rootSlot[RootHistoryKey(tree, (n - size + i - 1) % m)]]
    BY <1>1, <1>4, <1>5 DEF Ring
  <1> QED
    BY <1>3, <1>6, <1>7, <1>8

(* A full turn of the ring comes back to the same position. *)
LEMMA FullTurn ==
    ASSUME NEW k \in Nat, NEW m \in Nat \ {0}
    PROVE  (k + m) % m = k % m
  <1>1. PICK p, q : p = k \div m /\ q = (k + m) \div m
    OBVIOUS
  <1>2. /\ p \in Nat /\ q \in Nat
        /\ k = m * p + (k % m) /\ k + m = m * q + ((k + m) % m)
        /\ k % m \in 0..(m - 1) /\ (k + m) % m \in 0..(m - 1)
    BY <1>1
  <1>3. m * (q - p - 1) = (k % m) - ((k + m) % m)
    BY <1>2
  <1>4. CASE q - p - 1 = 0
    BY <1>2, <1>3, <1>4
  <1>5. CASE q - p - 1 >= 1
    <2>1. m * (q - p - 1) >= m
      BY <1>2, <1>5
    <2> QED
      BY <1>2, <1>3, <2>1
  <1>6. CASE q - p - 1 <= -1
    <2>1. m * (q - p - 1) <= -m
      BY <1>2, <1>6
    <2> QED
      BY <1>2, <1>3, <2>1
  <1> QED
    BY <1>2, <1>4, <1>5, <1>6

(* An insertion moves the window of its tree by one. *)
LEMMA InsertedRing ==
    ASSUME NEW r, NEW tree, NEW n \in Nat, NEW commitment, NEW depth, NEW g,
           tree = r.activeTreeId, n = r.nextIndex[tree],
           tree \in DOMAIN r.nextIndex, RingDense(r, tree),
           NoteInserted(r, g, commitment, depth)
    PROVE  /\ RingDense(g, tree) /\ g.nextIndex[tree] = n + 1
           /\ g.rootSlot[TreeRootKey(tree)] =
                 g.rootSlot[RootHistoryKey(tree, n % MaxRootHistory)]
           /\ GainsRoot(r, g, tree, g.rootSlot[TreeRootKey(tree)])
  <1>1. PICK m \in Nat \ {0} : m = MaxRootHistory
    BY RootHistoryAssumption
  <1>2. PICK root : root = NewRoot(Frontier(r, tree), commitment, n, depth)
    OBVIOUS
  <1>3. /\ g.nextIndex = Put(r.nextIndex, tree, n + 1)
        /\ g.rootSlot = Put(Put(r.rootSlot, TreeRootKey(tree), root),
                            RootHistoryKey(tree, n % m), root)
    <2>1. TreeNextIndex(r, tree) = n
      BY DEF TreeNextIndex, Get
    <2> QED
      BY <1>1, <1>2, <2>1 DEF NoteInserted, SlotsAfterLeaf
  <1>4. \A slot : TreeRootKey(tree) # RootHistoryKey(tree, slot)
    BY DEF TreeRootKey, RootHistoryKey
  <1>5. g.nextIndex[tree] = n + 1
    BY <1>3 DEF Put
  <1>6. /\ g.rootSlot[TreeRootKey(tree)] = root
        /\ g.rootSlot[RootHistoryKey(tree, n % m)] = root
        /\ DOMAIN g.rootSlot = DOMAIN r.rootSlot \cup {TreeRootKey(tree), RootHistoryKey(tree, n % m)}
    BY <1>3, <1>4 DEF Put
  <1>7. \A slot : slot # n % m =>
           g.rootSlot[RootHistoryKey(tree, slot)] = r.rootSlot[RootHistoryKey(tree, slot)]
        \/ RootHistoryKey(tree, slot) \notin DOMAIN r.rootSlot
    <2> TAKE slot
    <2>1. PICK key : key = RootHistoryKey(tree, slot)
      OBVIOUS
    <2>2. slot # n % m => key # RootHistoryKey(tree, n % m)
      BY <2>1 DEF RootHistoryKey
    <2> QED
      BY <1>3, <1>4, <2>1, <2>2 DEF Put
  <1>8. \A a, b : RootHistoryKey(tree, a) = RootHistoryKey(tree, b) => a = b
    BY DEF RootHistoryKey
  <1>9. RingDense(g, tree)
    <2>1. ASSUME NEW k \in 0..n PROVE RootHistoryKey(tree, k % m) \in DOMAIN g.rootSlot
      <3>1. CASE k = n
        BY <1>6, <3>1
      <3>2. CASE k # n
        <4>1. k \in 0..(n - 1)
          BY <3>2
        <4> QED
          BY <1>1, <1>6, <4>1 DEF RingDense
      <3> QED
        BY <3>1, <3>2
    <2>2. ASSUME NEW slot, RootHistoryKey(tree, slot) \in DOMAIN g.rootSlot
          PROVE  \E k \in 0..n : k >= n + 1 - m /\ slot = k % m
      <3>1. CASE slot = n % m
        <4>1. n \in 0..n /\ n >= n + 1 - m
          OBVIOUS
        <4> QED
          BY <3>1, <4>1
      <3>2. CASE slot # n % m
        <4>1. RootHistoryKey(tree, slot) \in DOMAIN r.rootSlot
          BY <1>4, <1>6, <1>8, <2>2, <3>2
        <4>2. PICK k \in 0..(n - 1) : k >= n - m /\ slot = k % m
          BY <1>1, <4>1 DEF RingDense
        <4>3. k # n - m
          <5> SUFFICES ASSUME k = n - m PROVE FALSE
            OBVIOUS
          <5>1. k + m = n /\ k \in Nat
            OBVIOUS
          <5>2. (k + m) % m = k % m
            BY <5>1, FullTurn
          <5> QED
            BY <3>2, <4>2, <5>1, <5>2
        <4>4. k \in 0..n /\ k >= n + 1 - m
          BY <4>2, <4>3
        <4> QED
          BY <4>2, <4>4
      <3> QED
        BY <3>1, <3>2
    <2>3. PICK next : next = n + 1 /\ next - 1 = n
      OBVIOUS
    <2>4. g.nextIndex[tree] = next
      BY <1>5, <2>3
    <2>5. \A k \in 0..(next - 1) : RootHistoryKey(tree, k % m) \in DOMAIN g.rootSlot
      BY <2>1, <2>3
    <2>6. \A slot : RootHistoryKey(tree, slot) \in DOMAIN g.rootSlot =>
             \E k \in 0..(next - 1) : k >= next - m /\ slot = k % m
      <3> SUFFICES ASSUME NEW slot, RootHistoryKey(tree, slot) \in DOMAIN g.rootSlot
                   PROVE  \E k \in 0..(next - 1) : k >= next - m /\ slot = k % m
        OBVIOUS
      <3>1. PICK k \in 0..n : k >= n + 1 - m /\ slot = k % m
        BY <2>2
      <3>2. k \in 0..(next - 1) /\ k >= next - m
        BY <2>3, <3>1
      <3> QED
        BY <3>1, <3>2
    <2> QED
      BY <1>1, <2>4, <2>5, <2>6 DEF RingDense
  <1>10. ASSUME NEW k \in Nat, k < n, n - k < m
         PROVE  g.rootSlot[RootHistoryKey(tree, k % m)] = r.rootSlot[RootHistoryKey(tree, k % m)]
    <2>1. k % m # n % m
      BY <1>10, RingPositionsDiffer
    <2>2. k \in 0..(n - 1)
      BY <1>10
    <2>3. RootHistoryKey(tree, k % m) \in DOMAIN r.rootSlot
      BY <1>1, <2>2 DEF RingDense
    <2> QED
      BY <1>7, <2>1, <2>3
  <1>11. GainsRoot(r, g, tree, root)
    <2>1. \A k \in Nat : k < n /\ n - k < MaxRootHistory =>
                g.rootSlot[RootHistoryKey(tree, k % MaxRootHistory)] =
                r.rootSlot[RootHistoryKey(tree, k % MaxRootHistory)]
      BY <1>1, <1>10
    <2>2. g.rootSlot[RootHistoryKey(tree, n % MaxRootHistory)] = root
      BY <1>1, <1>6
    <2>3. r.nextIndex[tree] = n
      OBVIOUS
    <2> QED
      BY <1>5, <2>1, <2>2, <2>3, RingWindow
  <1> QED
    BY <1>1, <1>5, <1>6, <1>9, <1>11

(* An insertion finds its tree there, or creates it. *)
LEMMA RoomCases ==
    ASSUME NEW f, NEW depth \in Nat, NEW r, Good(f), r = ForestWithRoom(f, depth)
    PROVE  (r = f /\ f.treeCount # 0) \/ r = CreateTree(f, depth)
  <1>1. CASE f.treeCount # 0
    BY <1>1 DEF ForestWithRoom, EnsureTreeExists
  <1>2. CASE f.treeCount = 0
    <2>1. PICK e : e = CreateTree(f, depth)
      OBVIOUS
    <2>2. e = EnsureTreeExists(f, depth)
      BY <1>2, <2>1 DEF EnsureTreeExists
    <2>3. e.activeTreeId = f.treeCount /\ e.nextIndex = Put(f.nextIndex, f.treeCount, 0)
      BY <2>1, CreateTreeFacts DEF Good
    <2>4. TreeNextIndex(e, e.activeTreeId) = 0
      BY <2>3 DEF TreeNextIndex, Get, Put
    <2>5. PICK w \in Nat \ {0} : w = Width[depth]
      BY WidthEquation
    <2>6. ~ TreeFull(e, e.activeTreeId, depth)
      BY <2>4, <2>5 DEF TreeFull
    <2> QED
      BY <2>1, <2>2, <2>6 DEF ForestWithRoom
  <1> QED
    BY <1>1, <1>2

(* A tree as it is between two messages. *)
RingOK(f, tree) ==
    /\ RingDense(f, tree)
    /\ f.nextIndex[tree] > 0
    /\ f.rootSlot[TreeRootKey(tree)] =
          f.rootSlot[RootHistoryKey(tree, (f.nextIndex[tree] - 1) % MaxRootHistory)]

(* A new tree has no ring yet; the others have the one they had. *)
LEMMA CreateTreeRings ==
    ASSUME NEW f, NEW depth, NEW g, Good(f), g = CreateTree(f, depth),
           \A tree \in Trees(f) : RingDense(f, tree)
    PROVE  /\ \A tree \in Trees(f) : RingDense(g, tree) /\ Ring(g, tree) = Ring(f, tree)
           /\ RingDense(g, f.treeCount) /\ Ring(g, f.treeCount) = <<>>
  <1>1. PICK new \in Nat : new = f.treeCount
    BY DEF Good, ForestShapeOK, CountersOK
  <1>2. /\ g.nextIndex = Put(f.nextIndex, f.treeCount, 0)
        /\ DOMAIN g.rootSlot = DOMAIN f.rootSlot \cup {TreeRootKey(f.treeCount)}
    BY CreateTreeFacts DEF Good
  <1>3. \A tree, slot : RootHistoryKey(tree, slot) # TreeRootKey(new)
    BY DEF RootHistoryKey, TreeRootKey
  <1>4. \A tree, slot : RootHistoryKey(tree, slot) \in DOMAIN g.rootSlot =>
                            RootHistoryKey(tree, slot) \in DOMAIN f.rootSlot
    BY <1>1, <1>2, <1>3
  <1>5. ASSUME NEW tree \in Trees(f)
        PROVE  RingDense(g, tree) /\ Ring(g, tree) = Ring(f, tree)
    <2>1. f.nextIndex[tree] \in Nat
      BY DEF Good, ForestShapeOK, CountersOK
    <2> QED
      BY <1>4, <2>1, CreateTreeSame, SameRing
  <1>6. g.nextIndex[new] = 0
    BY <1>1, <1>2 DEF Put
  <1>7. ASSUME NEW slot PROVE RootHistoryKey(new, slot) \notin DOMAIN f.rootSlot
    <2> SUFFICES ASSUME RootHistoryKey(new, slot) \in DOMAIN f.rootSlot PROVE FALSE
      OBVIOUS
    <2>1. RootHistoryKey(new, slot) \in ScannedKeys(f.treeCount)
      BY DEF Good, ForestShapeOK, SlotsOK
    <2>2. PICK tree \in 0..(f.treeCount - 1) :
              RootHistoryKey(new, slot) = TreeRootKey(tree) \/
              \E s : RootHistoryKey(new, slot) = RootHistoryKey(tree, s)
      BY <2>1 DEF ScannedKeys
    <2>3. new = tree
      BY <2>2 DEF RootHistoryKey, TreeRootKey
    <2> QED
      BY <1>1, <2>2, <2>3
  <1>8. RingDense(g, new)
    BY <1>4, <1>6, <1>7 DEF RingDense
  <1>9. Ring(g, new) = <<>>
    <2>1. PICK m \in Nat \ {0} : m = MaxRootHistory
      BY RootHistoryAssumption
    <2> QED
      BY <1>6, <2>1 DEF Ring
  <1> QED
    BY <1>1, <1>5, <1>8, <1>9

(* What one insertion does to the windows: that of one tree, the newest or   *)
(* a new one, gains a root.                                                  *)
LEMMA InsertNoteRings ==
    ASSUME NEW f, NEW commitment, NEW depth \in Nat, NEW g,
           Good(f), \A tree \in Trees(f) : RingOK(f, tree),
           g = InsertNote(f, commitment, depth)
    PROVE  /\ \A tree \in Trees(g) : RingOK(g, tree)
           /\ \E tree \in Trees(g) : \E r, root :
                /\ tree \in {f.treeCount - 1, f.treeCount}
                /\ Trees(g) = Trees(f) \cup {tree}
                /\ GainsRoot(r, g, tree, root)
                /\ Ring(r, tree) = IF tree \in Trees(f) THEN Ring(f, tree) ELSE <<>>
                /\ \A t \in Trees(f) : t # tree => Ring(g, t) = Ring(f, t)
  <1>1. PICK r : r = ForestWithRoom(f, depth)
    OBVIOUS
  <1>2. PICK tree : tree = r.activeTreeId
    OBVIOUS
  <1>3. Good(r) /\ tree \in Trees(r)
    BY <1>1, <1>2, ForestWithRoomGood
  <1>4. NoteInserted(r, g, commitment, depth)
    BY <1>1, InsertNoteWrites
  <1>5. Trees(g) = Trees(r)
    BY <1>4 DEF NoteInserted, Trees
  <1>6. PICK count \in Nat : count = f.treeCount
    BY DEF Good, ForestShapeOK, CountersOK
  <1>7. /\ tree \in {count - 1, count} /\ Trees(r) = Trees(f) \cup {tree}
        /\ \A t \in Trees(f) : RingDense(r, t) /\ Ring(r, t) = Ring(f, t)
        /\ RingDense(r, tree)
        /\ Ring(r, tree) = IF tree \in Trees(f) THEN Ring(f, tree) ELSE <<>>
        /\ \A t \in Trees(f) : t # tree => RingOK(r, t)
    <2>1. CASE r = f /\ f.treeCount # 0
      <3>1. tree = count - 1
        BY <1>2, <1>6, <2>1 DEF Good, ForestShapeOK, CountersOK
      <3> QED
        BY <1>3, <2>1, <3>1 DEF RingOK
    <2>2. CASE r = CreateTree(f, depth)
      <3>1. /\ r.activeTreeId = f.treeCount /\ r.treeCount = f.treeCount + 1
        BY <2>2, CreateTreeFacts DEF Good
      <3>2. tree = count /\ tree \notin Trees(f) /\ Trees(r) = Trees(f) \cup {tree}
        BY <1>2, <1>6, <3>1 DEF Trees
      <3>3. \A t \in Trees(f) : RingDense(f, t)
        BY DEF RingOK
      <3>4. /\ \A t \in Trees(f) : RingDense(r, t) /\ Ring(r, t) = Ring(f, t)
            /\ RingDense(r, tree) /\ Ring(r, tree) = <<>>
        BY <1>6, <2>2, <3>2, <3>3, CreateTreeRings
      <3>5. ASSUME NEW t \in Trees(f) PROVE RingOK(r, t)
        <4>1. TreeSame(f, r, t)
          BY <2>2, CreateTreeSame
        <4>2. PICK n \in Nat : n = f.nextIndex[t] /\ n > 0 /\ n - 1 \in 0..(n - 1)
          BY DEF RingOK, Good, ForestShapeOK, CountersOK
        <4>3. PICK key : key = RootHistoryKey(t, (n - 1) % MaxRootHistory)
          OBVIOUS
        <4>4. key \in DOMAIN f.rootSlot
          BY <3>3, <4>2, <4>3 DEF RingDense
        <4>5. r.rootSlot[key] = f.rootSlot[key] /\ r.nextIndex[t] = n
              /\ r.rootSlot[TreeRootKey(t)] = f.rootSlot[TreeRootKey(t)]
          BY <4>1, <4>2, <4>3, <4>4 DEF TreeSame
        <4>6. f.rootSlot[TreeRootKey(t)] = f.rootSlot[key]
          BY <4>2, <4>3 DEF RingOK
        <4> QED
          BY <3>4, <4>2, <4>3, <4>5, <4>6 DEF RingOK
      <3> QED
        BY <3>2, <3>4, <3>5
    <2> QED
      BY <1>1, <2>1, <2>2, RoomCases
  <1>8. PICK n \in Nat : n = r.nextIndex[tree] /\ tree \in DOMAIN r.nextIndex
    BY <1>3 DEF Good, ForestShapeOK, CountersOK
  <1>9. /\ RingDense(g, tree) /\ g.nextIndex[tree] = n + 1
        /\ g.rootSlot[TreeRootKey(tree)] =
              g.rootSlot[RootHistoryKey(tree, n % MaxRootHistory)]
        /\ GainsRoot(r, g, tree, g.rootSlot[TreeRootKey(tree)])
    <2>1. RingDense(r, tree)
      BY <1>7
    <2> QED
      BY <1>2, <1>4, <1>8, <2>1, InsertedRing
  <1>10. RingOK(g, tree)
    <2>1. PICK next : next = n + 1 /\ next - 1 = n /\ next > 0
      OBVIOUS
    <2>2. g.nextIndex[tree] = next
      BY <1>9, <2>1
    <2> QED
      BY <1>9, <2>1, <2>2 DEF RingOK
  <1>11. ASSUME NEW t \in Trees(f), t # tree
         PROVE  RingOK(g, t) /\ Ring(g, t) = Ring(f, t)
    <2>1. t \in Trees(r)
      BY <1>7
    <2>2. TreeSame(r, g, t) /\ r.nextIndex[t] \in Nat
      BY <1>2, <1>3, <1>4, <1>11, <2>1, InsertedElsewhere DEF Good, ForestShapeOK, CountersOK
    <2>3. ASSUME NEW slot, RootHistoryKey(t, slot) \in DOMAIN g.rootSlot
          PROVE  RootHistoryKey(t, slot) \in DOMAIN r.rootSlot
      <3>1. PICK key : key = RootHistoryKey(t, slot)
        OBVIOUS
      <3>2. \A s : key # TreeRootKey(tree) /\ key # RootHistoryKey(tree, s)
        BY <1>11, <3>1 DEF RootHistoryKey, TreeRootKey
      <3>3. \E s : DOMAIN g.rootSlot = DOMAIN r.rootSlot \cup {TreeRootKey(tree), RootHistoryKey(tree, s)}
        BY <1>2, <1>4 DEF NoteInserted, SlotsAfterLeaf, Put
      <3> QED
        BY <2>3, <3>1, <3>2, <3>3
    <2>4. RingDense(g, t) /\ Ring(g, t) = Ring(r, t)
      BY <1>7, <2>2, <2>3, SameRing
    <2>5. PICK k \in Nat : k = r.nextIndex[t] /\ k > 0 /\ k - 1 \in 0..(k - 1)
      BY <1>7, <1>11, <2>2 DEF RingOK
    <2>6. PICK key : key = RootHistoryKey(t, (k - 1) % MaxRootHistory)
      OBVIOUS
    <2>7. key \in DOMAIN r.rootSlot
      BY <1>7, <2>5, <2>6 DEF RingDense
    <2>8. g.rootSlot[key] = r.rootSlot[key] /\ g.nextIndex[t] = k
          /\ g.rootSlot[TreeRootKey(t)] = r.rootSlot[TreeRootKey(t)]
      BY <2>2, <2>5, <2>6, <2>7 DEF TreeSame
    <2>9. r.rootSlot[TreeRootKey(t)] = r.rootSlot[key]
      BY <1>7, <1>11, <2>5, <2>6 DEF RingOK
    <2>10. RingOK(g, t)
      BY <2>4, <2>5, <2>6, <2>8, <2>9 DEF RingOK
    <2> QED
      BY <1>7, <2>4, <2>10
  <1>12. \A t \in Trees(g) : RingOK(g, t)
    BY <1>5, <1>7, <1>10, <1>11
  <1> QED
    BY <1>3, <1>5, <1>6, <1>7, <1>9, <1>11, <1>12

(* What the ring slots of a tree hold is its window. *)
LEMMA RingHolds ==
    ASSUME NEW f, NEW tree, f.nextIndex[tree] \in Nat, RingDense(f, tree)
    PROVE  /\ \A i \in DOMAIN Ring(f, tree) :
                \E slot : /\ RootHistoryKey(tree, slot) \in DOMAIN f.rootSlot
                          /\ Ring(f, tree)[i] = f.rootSlot[RootHistoryKey(tree, slot)]
           /\ \A slot : RootHistoryKey(tree, slot) \in DOMAIN f.rootSlot =>
                \E i \in DOMAIN Ring(f, tree) :
                   Ring(f, tree)[i] = f.rootSlot[RootHistoryKey(tree, slot)]
  <1>1. PICK m \in Nat \ {0} : m = MaxRootHistory
    BY RootHistoryAssumption
  <1>2. PICK n \in Nat : n = f.nextIndex[tree]
    OBVIOUS
  <1>3. PICK size \in Nat : size = (IF n < m THEN n ELSE m) /\ size <= n
    OBVIOUS
  <1>4. Ring(f, tree) = [i \in 1..size |-> f.rootSlot[RootHistoryKey(tree, (n - size + i - 1) % m)]]
    BY <1>1, <1>2, <1>3 DEF Ring
  <1>5. ASSUME NEW i \in 1..size
        PROVE  \E slot : /\ RootHistoryKey(tree, slot) \in DOMAIN f.rootSlot
                         /\ Ring(f, tree)[i] = f.rootSlot[RootHistoryKey(tree, slot)]
    <2>1. PICK k \in 0..(n - 1) : k = n - size + i - 1
      BY <1>3
    <2>2. RootHistoryKey(tree, k % m) \in DOMAIN f.rootSlot
      BY <1>1, <1>2, <2>1 DEF RingDense
    <2>3. Ring(f, tree)[i] = f.rootSlot[RootHistoryKey(tree, k % m)]
      BY <1>4, <2>1
    <2> QED
      BY <2>2, <2>3
  <1>6. ASSUME NEW slot, RootHistoryKey(tree, slot) \in DOMAIN f.rootSlot
        PROVE  \E i \in 1..size : Ring(f, tree)[i] = f.rootSlot[RootHistoryKey(tree, slot)]
    <2>1. PICK k \in 0..(n - 1) : k >= n - m /\ slot = k % m
      BY <1>1, <1>2, <1>6 DEF RingDense
    <2>2. PICK i \in 1..size : i = k - (n - size) + 1
      BY <1>3, <2>1
    <2>3. n - size + i - 1 = k
      BY <1>3, <2>1, <2>2
    <2>4. Ring(f, tree)[i] = f.rootSlot[RootHistoryKey(tree, k % m)]
      BY <1>4, <2>3
    <2> QED
      BY <2>1, <2>4
  <1>7. DOMAIN Ring(f, tree) = 1..size
    BY <1>4
  <1> QED
    BY <1>5, <1>6, <1>7
=============================================================================
