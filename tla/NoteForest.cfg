\* Governance moves the depth between 1 and 3 while notes are inserted; a tree
\* of depth 2 or 3 holds more leaves than the ring of 3 roots remembers.
CONSTANTS
    n1 = n1
    n2 = n2
    n3 = n3
    n4 = n4
    n5 = n5
    n6 = n6
    Zero = Zero
    Commitment <- SixNotes
    MaxRootHistory = 3
    DefaultTreeDepth = 2
    TreeDepths = {1, 2, 3}
    LegacyNotes = 0
SPECIFICATION Spec
SYMMETRY Symmetry
INVARIANTS
    TypeOK
    IndexExact
    LookupMatchesScan
    LeavesAreUnique
PROPERTIES
    HistoryIsAppendOnly
    ImplementsLookback
