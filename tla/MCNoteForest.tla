---------------------------- MODULE MCNoteForest ----------------------------
(***************************************************************************)
(* NoteForest for TLC.  Commitments are interchangeable; Zero is not one.  *)
(***************************************************************************)
EXTENDS NoteForest, TLC

CONSTANTS n1, n2, n3, n4, n5, n6

SixNotes  == {n1, n2, n3, n4, n5, n6}

Symmetry == Permutations(Commitment)
=============================================================================
