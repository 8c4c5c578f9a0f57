------------------------------ MODULE MCGenesis ------------------------------
(***************************************************************************)
(* Genesis for TLC: the coins and notes of MCNixPool, governance moving    *)
(* the depth of the note trees between 1 and 2.                            *)
(***************************************************************************)
EXTENDS MCNixPool, Genesis

ThreeNotes == {big, small, change}

Depths == {Configured, [Configured EXCEPT !.treeDepth = 2]}

(* Under an auditor's key: governance binds the chain and moves the depth. *)
AuditedDepths == {Audited, [Audited EXCEPT !.treeDepth = 2]}

(* One coin of each denomination and every note worth one: a note is paid  *)
(* with the one before it, or with a coin that came back.                  *)
OneValue == [note \in Commitment |-> 1]

OneCoinEach == x :> 1 @@ y :> 1
=============================================================================
