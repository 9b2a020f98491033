SPECIFICATION Spec
CONSTANTS
    Node = {n1, n2, n3}
    Object = {o1, o2}
    Null = Null
    MaxLevel = 2
    MaxShares = 2
    Var = {a}
    BlockVar = {}
    Member = {m}
    Kinds = {"vector"}
    Features = {}
    MaxBlocks = 0
    MaxCascade = 3
SYMMETRY Symmetric
INVARIANT ScriptSeesNoDeletedObject
