SPECIFICATION Spec
CONSTANTS
    o1 = o1
    e1 = e1
    e2 = e2
    NoObj = NoObj
    Obj <- AllObjects
    DataOf <- ObjectsData
    Elem = {e1, e2}
    Default = 0
    Absent = 2
    MaxLevel = 3
INVARIANTS TypeOK NothingLeftBehind RestoreChains ScopeLists GarbageIsRestored
PROPERTY BehavesAsSnapshots
SYMMETRY Symmetry
