SPECIFICATION Spec
CONSTANTS
    Elt = {a, b}
    MaxLevel = 3
    MaxLen = 4
INVARIANTS SavedChain IndicesInOrder
PROPERTY BehavesAsSnapshots
