CONSTANTS
    Keys = {1, 2, 3, 4, 5}
    Entries <- MCEntries
    InternalNodeChildren = 3
    LeafNodeChildren = 2
    MaxWrites = 1
    Null = Null
SPECIFICATION Spec
INVARIANTS
    SearchesAgree
PROPERTIES
    ImplementsSortedMap
