SPECIFICATION Spec
CONSTANTS
    k1 = k1
    k2 = k2
    k3 = k3
    v = v
    w = w
    Nil = Nil
    Key <- ThreeKeys
    DataOf <- OneKeyChanges
    MaxLevel = 2
INVARIANTS GarbageUnreachable ListMatchesTable
PROPERTY BehavesAsSnapshots
SYMMETRY Symmetry
