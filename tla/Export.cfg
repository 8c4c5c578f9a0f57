\* Governance lowers the depth of a tree with leaves.
CONSTANTS
    big = big
    small = small
    change = change
    other = other
    x = x
    y = y
    alice = alice
    bob = bob
    Zero = Zero
    Unset = Unset
    Commitment <- TwoNotes
    Identity = {alice, bob}
    Denom = {x, y}
    NoteValue <- MCNoteValue
    NoteDenom <- MCNoteDenom
    NoteOwner <- MCNoteOwner
    Supply <- MCSupply
    FieldModulus = 7
    MaxAmount = 5
    Keys = {"key"}
    ChainIds = {"chain"}
    MaxRootHistory = 2
    DefaultTreeDepth = 1
    RegTreeDepth = 1
    CircuitDepth = 1
    CircuitRegDepth = 1
    ParamChoices <- Depths
    GenesisParams <- Configured
    GenesisVKs = {"deposit", "transact", "registration"}
    AttachData = {FALSE}
    StoreTakesNil = TRUE
SPECIFICATION RestartSpec
INVARIANTS
    ExportIsComplete
