\* An auditor key from genesis on, transactions of several messages.
CONSTANTS
    big = big
    small = small
    change = change
    other = other
    x = x
    y = y
    alice = alice
    bob = bob
    Zero = Zero
    Unset = Unset
    Commitment <- TwoNotes
    Identity = {alice, bob}
    Denom = {x, y}
    NoteValue <- MCNoteValue
    NoteDenom <- MCNoteDenom
    NoteOwner <- MCNoteOwner
    Supply <- MCSupply
    FieldModulus = 7
    MaxAmount = 5
    Keys = {"key"}
    ChainIds = {"chain"}
    MaxRootHistory = 1
    DefaultTreeDepth = 1
    RegTreeDepth = 1
    CircuitDepth = 1
    CircuitRegDepth = 1
    ParamChoices <- AuditedOnly
    GenesisParams <- Audited
    GenesisVKs = {"deposit", "transact", "registration"}
    AttachData = {TRUE}
SPECIFICATION Spec
INVARIANTS
    AuditorSeesIdentities
