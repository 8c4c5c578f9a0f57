----------------------------- MODULE MCWirePool ------------------------------
(***************************************************************************)
(* WirePool for TLC: every element in its canonical form, and one lap of   *)
(* the modulus above it or with a leading zero byte.                       *)
(***************************************************************************)
EXTENDS WirePool, TLC

CONSTANTS big, small, x, alice

ThreeForms == {<<32, 0>>, <<32, 1>>, <<33, 0>>}

MCNoteValue == [note \in Commitment |-> 1]
MCNoteDenom == [note \in Commitment |-> x]
MCNoteOwner == [note \in Commitment |-> alice]
MCSupply    == x :> 2

Configured ==
    [treeDepth |-> DefaultTreeDepth, regTreeDepth |-> RegTreeDepth,
     auditorPubKey |-> Unset, supportedDenoms |-> {x}, chainBinding |-> "chain"]
=============================================================================
