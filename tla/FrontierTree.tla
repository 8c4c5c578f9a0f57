---------------------------- MODULE FrontierTree ----------------------------
(***************************************************************************)
(* The incremental ("frontier") Merkle tree of keeper/merkle.go, as        *)
(* operators.  Both the note trees (insertLeafIntoTree) and the            *)
(* registration tree (insertLeafSingleTree) climb from the new leaf to the *)
(* root with this algorithm, and keep nothing but one node per level.      *)
(*                                                                         *)
(* Hashing is symbolic: a node is the term that computes it, so two nodes  *)
(* are equal only when they were computed alike -- the collision           *)
(* resistance the code takes from Poseidon2, domain separation included.   *)
(***************************************************************************)
EXTENDS KVStore, Naturals, Sequences

CONSTANT Zero   \* the field element 0: the empty leaf, and an unset element

(* A field element that enters a tree: the node that is no hash of others. *)
Leaf(element) == <<element>>

Hash2(left, right) == <<left, right>>

(* merkle.ZeroHash: the root of an empty subtree with 2^level leaves. *)
ZeroHash[level \in Nat] ==
    IF level = 0 THEN Leaf(Zero) ELSE Hash2(ZeroHash[level - 1], ZeroHash[level - 1])

(* 1 << level, the leaves under a node. *)
Width[level \in Nat] == IF level = 0 THEN 1 ELSE 2 * Width[level - 1]

(* Whether the path from leaf `index` is in the left half at `level`. *)
GoesLeft(index, level) == (index \div Width[level]) % 2 = 0

(* What the climb hashes with at a level where it comes from the right: a *)
(* frontier entry that was never stored reads as an unset fr.Element.     *)
LeftSibling(frontier, level) == Get(frontier, level, Leaf(Zero))

(* The nodes the climb passes through; its last one is the new root. *)
Path(frontier, leaf, index, depth) ==
    LET node[level \in 0..depth] ==
            IF level = 0 THEN Leaf(leaf)
            ELSE IF GoesLeft(index, level - 1)
                 THEN Hash2(node[level - 1], ZeroHash[level - 1])
                 ELSE Hash2(LeftSibling(frontier, level - 1), node[level - 1])
    IN  node

NewRoot(frontier, leaf, index, depth) == Path(frontier, leaf, index, depth)[depth]

(* A variant for the runs to refute: only the nodes of this climb are kept. *)
NewFrontierForgets(frontier, leaf, index, depth) ==
    LET path    == Path(frontier, leaf, index, depth)
        written == {level \in 0..(depth - 1) : GoesLeft(index, level)}
    IN  [level \in written |-> path[level]]

(* The frontier after the climb: rewritten exactly where it went left.  *)
(* Entries at other levels, those above `depth` included, are left.     *)
NewFrontier(frontier, leaf, index, depth) ==
    LET path    == Path(frontier, leaf, index, depth)
        written == {level \in 0..(depth - 1) : GoesLeft(index, level)}
    IN  [level \in DOMAIN frontier \cup written |->
            IF level \in written THEN path[level] ELSE frontier[level]]

(***************************************************************************)
(* Reference: the rows of the Merkle tree over a list of leaves, padded    *)
(* with Zero to 2^depth, and its root.  They model no code of the          *)
(* repository; they are what the frontier algorithm is compared with.      *)
(***************************************************************************)
Rows(leaves, depth) ==
    LET row[level \in 0..depth] ==
            [pos \in 0..(Width[depth - level] - 1) |->
                IF level = 0
                THEN Leaf(IF pos < Len(leaves) THEN leaves[pos + 1] ELSE Zero)
                ELSE Hash2(row[level - 1][2 * pos], row[level - 1][2 * pos + 1])]
    IN  row

MerkleRoot(leaves, depth) == Rows(leaves, depth)[depth][0]
=============================================================================
