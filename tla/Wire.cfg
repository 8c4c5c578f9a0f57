\* Handlers behind ValidateBasic, and handlers that nothing protects.
CONSTANTS
    big = big
    small = small
    x = x
    alice = alice
    Zero = Zero
    Unset = Unset
    Commitment = {big, small}
    Identity = {alice}
    Denom = {x}
    NoteValue <- MCNoteValue
    NoteDenom <- MCNoteDenom
    NoteOwner <- MCNoteOwner
    Supply <- MCSupply
    FieldModulus = 5
    MaxAmount = 3
    Keys = {"key"}
    ChainIds = {"chain"}
    MaxRootHistory = 1
    DefaultTreeDepth = 1
    RegTreeDepth = 1
    CircuitDepth = 1
    CircuitRegDepth = 1
    ParamChoices = {}
    GenesisParams <- Configured
    GenesisVKs = {"deposit", "transact", "registration"}
    AttachData = {FALSE}
    Forms <- ThreeForms
    MaxOddFields = 2
SPECIFICATION WireSpec
INVARIANTS
    ElementsAreUnique
    ZeroStaysFree
PROPERTIES
    WireImplementsLedger
    WireImplementsPool
