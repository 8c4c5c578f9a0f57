\* A configured pool, governance switching denomination y off and on.
CONSTANTS
    big = big
    small = small
    change = change
    other = other
    x = x
    y = y
    alice = alice
    bob = bob
    Zero = Zero
    Unset = Unset
    Commitment <- FourNotes
    Identity = {alice, bob}
    Denom = {x, y}
    NoteValue <- MCNoteValue
    NoteDenom <- MCNoteDenom
    NoteOwner <- MCNoteOwner
    Supply <- MCSupply
    FieldModulus = 7
    MaxAmount = 5
    Keys = {"key"}
    ChainIds = {"chain"}
    MaxRootHistory = 1
    DefaultTreeDepth = 1
    RegTreeDepth = 1
    CircuitDepth = 1
    CircuitRegDepth = 1
    ParamChoices <- Governed
    GenesisParams <- Configured
    GenesisVKs = {"deposit", "transact", "registration"}
    AttachData = {FALSE}
SPECIFICATION Spec
INVARIANTS
    TypeOK
    Solvent
    OnlyNotesAreSpent
    UnspentIsWithdrawable
    RegistrationIsSound
PROPERTIES
    OutputsAreRegistered
    ImplementsLedger
