SPECIFICATION Spec
CONSTANTS
    Node = {n1, n2, n3, n4}
    Object = {obj}
    Null = Null
    MaxLevel = 1
    MaxShares = 2
INVARIANTS TypeOK RingsAreClosed WalkStaysAllocated
PROPERTY ImplementsManager
SYMMETRY NodeSymmetry
