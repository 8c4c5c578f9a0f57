------------------------------ MODULE Circuits ------------------------------
(***************************************************************************)
(* The three zero-knowledge circuits, which live outside this repository,  *)
(* as the statements the handlers rely on.  A proof verifies exactly when  *)
(* its statement is true of its public inputs (soundness and completeness  *)
(* of UltraHonk).  A statement is timeless: who has seen a proof may       *)
(* submit it again, so the handlers alone keep it from counting twice.     *)
(*                                                                         *)
(* A commitment binds the note's value, denomination and owner, and gives  *)
(* the note one nullifier.                                                 *)
(***************************************************************************)
EXTENDS ForestStore, RegistrationTree, FiniteSetsExt

CONSTANTS
    Denom,
    NoteValue,      \* commitment -> the value of the note it hides
    NoteDenom,      \* commitment -> its denomination
    NoteOwner,      \* commitment -> the identity that can spend it
    CircuitDepth,   \* the depth of the note trees the transact circuit walks
    CircuitRegDepth \* the depth of the registration tree it walks

ASSUME NoteAssumption ==
    /\ NoteValue \in [Commitment -> Nat \ {0}]
    /\ NoteDenom \in [Commitment -> Denom]
    /\ NoteOwner \in [Commitment -> Identity]

(* No note and no identity hashes to the element that stands for neither. *)
ASSUME ZeroAssumption == Zero \notin Commitment \cup Identity

ASSUME CircuitDepthAssumption == {CircuitDepth, CircuitRegDepth} \subseteq Nat \ {0}

NullifierOf(note) == <<"nullifier", note>>

(* A dummy input and a missing output are the field element 0. *)
Real(notes) == {i \in DOMAIN notes : notes[i] # Zero}

Worth(note) == IF note = Zero THEN 0 ELSE NoteValue[note]

(* What the two notes on one side of a transact are worth. *)
ValueOf(notes) == Worth(notes[1]) + Worth(notes[2])

Children(node) == IF Len(node) = 2 THEN {node[1], node[2]} ELSE {}

Below(nodes) == UNION {Children(node) : node \in nodes}

(* The nodes that paths lead to from the root, by their number of steps. *)
Generations(root, depth) ==
    LET row[level \in 0..depth] ==
            IF level = 0 THEN {root} ELSE Below(row[level - 1])
    IN  row

(* The elements with a Merkle path of this length to the root. *)
LeavesUnder(root, depth) ==
    {node[1] : node \in {n \in Generations(root, depth)[depth] : Len(n) = 1}}

DepositStatement(note, amount, denom) ==
    amount = NoteValue[note] /\ denom = NoteDenom[note]

(* Both sides of a transact balance, in one denomination; every real input *)
(* is under the root it names and every real output is for a registered    *)
(* identity.                                                               *)
TransactStatement(msg) ==
    /\ \A i \in Real(msg.inputs) :
          /\ NoteDenom[msg.inputs[i]] = msg.denom
          /\ msg.inputs[i] \in LeavesUnder(msg.roots[i], CircuitDepth)
    /\ \A i \in Real(msg.outputs) :
          /\ NoteDenom[msg.outputs[i]] = msg.denom
          /\ NoteOwner[msg.outputs[i]] \in LeavesUnder(msg.regRoot, CircuitRegDepth)
    /\ ValueOf(msg.inputs) = ValueOf(msg.outputs) + msg.withdraw + msg.fee
=============================================================================
