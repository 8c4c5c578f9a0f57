---------------------------- MODULE RootLookback ----------------------------
(***************************************************************************)
(* What the forest promises to spenders, with no slots, no ring arithmetic *)
(* and no reverse index: each tree remembers its most recent roots, at     *)
(* most Lookback of them, and exactly those roots (and the root of an      *)
(* empty tree) are accepted.  keeper/merkle.go calls the bound "a          *)
(* soundness bound, not a cache size".  NoteForest is shown to implement   *)
(* this module.                                                            *)
(***************************************************************************)
EXTENDS Integers, Sequences, FiniteSets

CONSTANTS
    Lookback,    \* how many roots of a tree stay acceptable
    EmptyRoot    \* the root accepted even before a tree exists

VARIABLES
    recent,      \* tree -> its latest roots, oldest first
    accepted     \* the roots a spend may prove against

vars == <<recent, accepted>>

Trees == DOMAIN recent

(* The last Lookback elements of a sequence. *)
Window(roots) ==
    IF Len(roots) <= Lookback THEN roots
    ELSE SubSeq(roots, Len(roots) - Lookback + 1, Len(roots))

Init ==
    /\ recent = <<>>
    /\ accepted = {EmptyRoot}

AcceptRecent(windows) ==
    {EmptyRoot} \cup
    UNION {{windows[tree][i] : i \in DOMAIN windows[tree]} : tree \in DOMAIN windows}

(* A tree gets a new root: whatever the step leaves at the end of its window. *)
Advance(tree) ==
    LET before == IF tree \in Trees THEN recent[tree] ELSE <<>>
        root   == recent'[tree][Len(recent'[tree])]
    IN  /\ recent' = [t \in Trees \cup {tree} |->
                        IF t = tree THEN Window(Append(before, root)) ELSE recent[t]]
        /\ accepted' = AcceptRecent(recent')

(* Only the newest tree advances, or the one that follows it appears. *)
Next ==
    \E tree \in {Cardinality(Trees) - 1, Cardinality(Trees)} \cap DOMAIN recent' :
        /\ recent'[tree] # <<>>
        /\ Advance(tree)

Spec == Init /\ [][Next]_vars
=============================================================================
