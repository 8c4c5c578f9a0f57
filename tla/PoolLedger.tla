----------------------------- MODULE PoolLedger ------------------------------
(***************************************************************************)
(* What the pool promises about value, with no trees, roots, nullifiers or *)
(* proofs: a note is shielded once, spent at most once, and the coins held *)
(* follow the notes.  NixPool is shown to implement this module.           *)
(***************************************************************************)
EXTENDS FiniteSetsExt

CONSTANTS Note, Denom, Value, DenomOf

VARIABLES
    unspent,   \* the notes that can be spent
    gone,      \* the notes that have been
    held       \* denomination -> coins in the pool

vars == <<unspent, gone, held>>

Amount(notes) == MapThenSumSet(LAMBDA note : Value[note], notes)

Fresh == Note \ (unspent \cup gone)

Init ==
    /\ unspent = {}
    /\ gone = {}
    /\ held = [d \in Denom |-> 0]

Shield(note) ==
    /\ unspent' = unspent \cup {note}
    /\ held' = [held EXCEPT ![DenomOf[note]] = @ + Value[note]]
    /\ UNCHANGED gone

(* At most two notes of one denomination turn into at most two new ones; *)
(* the value that is left over leaves the pool.                          *)
Transfer(denom, ins, outs) ==
    /\ Amount(outs) <= Amount(ins)
    /\ unspent' = (unspent \ ins) \cup outs
    /\ gone' = gone \cup ins
    /\ held' = [held EXCEPT ![denom] = @ - (Amount(ins) - Amount(outs))]

AtMostTwo(notes, denom) ==
    UNION {kSubset(k, {note \in notes : DenomOf[note] = denom}) : k \in 0..2}

Next ==
    \/ \E note \in Fresh : Shield(note)
    \/ \E denom \in Denom :
          \E ins \in AtMostTwo(unspent, denom), outs \in AtMostTwo(Fresh, denom) :
             Transfer(denom, ins, outs)

Spec == Init /\ [][Next]_vars
=============================================================================
