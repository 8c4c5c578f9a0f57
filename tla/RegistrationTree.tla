-------------------------- MODULE RegistrationTree --------------------------
(***************************************************************************)
(* The registration tree of keeper/merkle.go, as operators from a tree to  *)
(* a tree: one frontier tree of fixed depth with a duplicate check, no     *)
(* ring of recent roots and no second tree once it is full.                *)
(*                                                                         *)
(*   nextIndex   the next leaf's index                                     *)
(*   leaf        index -> identity commitment                              *)
(*   frontier    level -> node                                             *)
(*   root        RegRootKey -> the root, missing before the first leaf     *)
(*   used        the identities marked as inserted                         *)
(***************************************************************************)
EXTENDS FrontierTree

CONSTANTS
    Identity,        \* the identity commitments
    RegTreeDepth     \* DefaultRegTreeDepth; params.reg_tree_depth is not read

ASSUME RegDepthAssumption == RegTreeDepth \in Nat \ {0}

EmptyRegistration ==
    [nextIndex |-> 0, leaf |-> <<>>, frontier |-> <<>>, root |-> <<>>, used |-> {}]

RegRootKey == "root"

GetRegMerkleRoot(registration) == Get(registration.root, RegRootKey, ZeroHash[RegTreeDepth])

(* A variant for the runs to refute: any registration root is good. *)
IsValidRegRootAny(registration, root) == TRUE

(* A spend must prove against the root of this very moment. *)
IsValidRegRoot(registration, root) == root = GetRegMerkleRoot(registration)

(* A variant for the runs to refute: the used markers are not read. *)
CanInsertRegCommitmentAgain(registration, identity) ==
    registration.nextIndex < Width[RegTreeDepth]

CanInsertRegCommitment(registration, identity) ==
    /\ identity \notin registration.used
    /\ registration.nextIndex < Width[RegTreeDepth]

InsertRegCommitment(registration, identity) ==
    LET index == registration.nextIndex
        old   == registration.frontier
    IN  [nextIndex |-> index + 1,
         leaf      |-> Put(registration.leaf, index, identity),
         frontier  |-> NewFrontier(old, identity, index, RegTreeDepth),
         root      |-> Put(registration.root, RegRootKey,
                           NewRoot(old, identity, index, RegTreeDepth)),
         used      |-> registration.used \cup {identity}]

-----------------------------------------------------------------------------

RegLeaves(registration) ==
    [i \in 1..registration.nextIndex |-> registration.leaf[i - 1]]

RegistrationTypeOK(registration) ==
    /\ registration.nextIndex \in Nat
    /\ registration.leaf \in [0..(registration.nextIndex - 1) -> Identity]
    /\ DOMAIN registration.frontier \subseteq 0..(RegTreeDepth - 1)
    /\ registration.used \subseteq Identity
=============================================================================
