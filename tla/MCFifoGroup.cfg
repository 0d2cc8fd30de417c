\* Every tree of three groups, up to two entries per list and four in all, over two leaves.
CONSTANTS
    a = a
    b = b
    Nil = Nil
    Leaves <- MCLeaves
    NumGroups = 3
    MaxMods = 2
    MaxEntries = 4
SPECIFICATION Spec
INVARIANT ModifySemantics
INVARIANT ImmutablePreservesSemantics
