\* The same property once governance may move the depth.
CONSTANTS
    n1 = n1
    n2 = n2
    n3 = n3
    n4 = n4
    n5 = n5
    n6 = n6
    Zero = Zero
    Commitment <- SixNotes
    MaxRootHistory = 3
    DefaultTreeDepth = 2
    TreeDepths = {1, 2, 3}
    LegacyNotes = 0
SPECIFICATION Spec
SYMMETRY Symmetry
INVARIANTS
    RootsAreMerkleRoots
