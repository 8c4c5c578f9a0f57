\* Trees of four leaves and a ring of two roots: messages in flight are
\* overtaken by insertions, a full tree and a registration.
CONSTANTS
    x1 = x1
    x2 = x2
    x3 = x3
    y1 = y1
    y2 = y2
    x = x
    y = y
    alice = alice
    Zero = Zero
    Unset = Unset
    Commitment <- FiveNotes
    Identity = {alice}
    Denom = {x, y}
    NoteValue <- MCNoteValue
    NoteDenom <- MCNoteDenom
    NoteOwner <- MCNoteOwner
    Supply <- MCSupply
    FieldModulus = 7
    MaxAmount = 5
    Keys = {"key"}
    ChainIds = {"chain"}
    MaxRootHistory = 2
    DefaultTreeDepth = 2
    RegTreeDepth = 1
    CircuitDepth = 2
    CircuitRegDepth = 1
    ParamChoices <- Unmoved
    GenesisParams <- Configured
    GenesisVKs = {"deposit", "transact", "registration"}
    MaxInFlight = 2
    AttachData = {FALSE}
SPECIFICATION FairSpec
INVARIANTS
    WindowIsKept
PROPERTIES
    ImplementsLedger
    EveryNoteIsSpent
CHECK_DEADLOCK FALSE
