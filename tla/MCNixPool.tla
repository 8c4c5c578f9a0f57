----------------------------- MODULE MCNixPool ------------------------------
(***************************************************************************)
(* NixPool for TLC: three coins x and one coin y, a note of two coins that *)
(* can be split and merged, two owners, trees of two leaves.               *)
(***************************************************************************)
EXTENDS NixPool, TLC

CONSTANTS big, small, change, other, x, y, alice, bob

FourNotes == {big, small, change, other}
TwoNotes  == {big, small}

MCNoteValue == [note \in Commitment |-> IF note = big THEN 2 ELSE 1]
MCNoteDenom == [note \in Commitment |-> IF note = other THEN y ELSE x]
MCNoteOwner == [note \in Commitment |-> IF note \in {big, change} THEN alice ELSE bob]
MCSupply     == x :> 3 @@ y :> 1

(* DefaultParams with the model's depths and denomination. *)
DefaultParams ==
    [treeDepth |-> DefaultTreeDepth, regTreeDepth |-> RegTreeDepth,
     auditorPubKey |-> Unset, supportedDenoms |-> {x}, chainBinding |-> Unset]

Configured == [DefaultParams EXCEPT !.chainBinding = "chain", !.supportedDenoms = {x, y}]
OneDenom   == [Configured EXCEPT !.supportedDenoms = {x}]
AuditedUnbound == [DefaultParams EXCEPT !.auditorPubKey = "key"]
Audited        == [Configured EXCEPT !.auditorPubKey = "key"]
Unbound    == [Configured EXCEPT !.chainBinding = Unset]
BadDepth   == [Configured EXCEPT !.treeDepth = 0]

Governed == {OneDenom, Configured, BadDepth}
Unbinding == {Configured, Unbound}
AuditedOnly == {Audited}
=============================================================================
