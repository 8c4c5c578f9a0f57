\* A constant depth and a ring of three roots, on a fresh chain and on those
\* that held up to five notes before the reverse index existed.  No symmetry:
\* every order of insertion is a state of its own.
CONSTANTS
    n1 = n1
    n2 = n2
    n3 = n3
    n4 = n4
    n5 = n5
    n6 = n6
    Zero = Zero
    Commitment <- SixNotes
    MaxRootHistory = 3
    DefaultTreeDepth = 2
    TreeDepths = {2}
    LegacyNotes = 5
SPECIFICATION LegacySpec
INVARIANTS
    RootsAreMerkleRoots
    IndexNeverOvercounts
PROPERTIES
    RebuildRepairs
