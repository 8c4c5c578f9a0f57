------------------------------ MODULE MCClients ------------------------------
(***************************************************************************)
(* Clients for TLC: two denominations of one coin each, three notes of the *)
(* one and two of the other, which share the trees; an owner who may       *)
(* register late.                                                          *)
(***************************************************************************)
EXTENDS Clients, TLC

CONSTANTS x1, x2, x3, y1, y2, x, y, alice

FiveNotes == {x1, x2, x3, y1, y2}

MCNoteValue == [note \in Commitment |-> 1]
MCNoteDenom == [note \in Commitment |-> IF note \in {y1, y2} THEN y ELSE x]
MCNoteOwner == [note \in Commitment |-> alice]
MCSupply    == x :> 1 @@ y :> 1

Configured ==
    [treeDepth |-> DefaultTreeDepth, regTreeDepth |-> RegTreeDepth,
     auditorPubKey |-> Unset, supportedDenoms |-> {x, y}, chainBinding |-> "chain"]

(* Governance votes for the parameters as they are. *)
Unmoved == {Configured}
=============================================================================
