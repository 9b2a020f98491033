SPECIFICATION Spec
CONSTANTS
    Node = {n1, n2}
    Object = {o1, o2}
    Null = Null
    MaxLevel = 2
    MaxShares = 3
    Var = {a, b}
    BlockVar = {b}
    Member = {}
    Kinds = {"class"}
    Features = {}
    MaxBlocks = 1
    MaxCascade = 3
INVARIANTS CountIsExact NoGarbageAfterMain
