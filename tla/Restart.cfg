\* A chain with an auditor key from genesis on; governance supplies the chain
\* binding and two verification keys, and moves the depth.  Export and import
\* at any moment, with the store of the repository's tests.
CONSTANTS
    big = big
    small = small
    change = change
    other = other
    x = x
    y = y
    alice = alice
    bob = bob
    Zero = Zero
    Unset = Unset
    Commitment <- ThreeNotes
    Identity = {alice, bob}
    Denom = {x, y}
    NoteValue <- OneValue
    NoteDenom <- MCNoteDenom
    NoteOwner <- MCNoteOwner
    Supply <- OneCoinEach
    FieldModulus = 7
    MaxAmount = 5
    Keys = {"key"}
    ChainIds = {"chain"}
    MaxRootHistory = 2
    DefaultTreeDepth = 1
    RegTreeDepth = 1
    CircuitDepth = 1
    CircuitRegDepth = 1
    ParamChoices <- AuditedDepths
    GenesisParams <- AuditedUnbound
    GenesisVKs = {"registration"}
    AttachData = {TRUE}
    StoreTakesNil = TRUE
SPECIFICATION RestartSpec
INVARIANTS
    RegistrationIsSound
    LossIsAboveDepth
    NilsAreGaps
PROPERTIES
    FinishedDataIsKept
    RestartIsInvisible
    ImplementsLedger
