SPECIFICATION FairSpec
CONSTANTS
    Node = {n1, n2, n3}
    Object = {o1, o2}
    Null = Null
    MaxLevel = 2
    MaxShares = 2
    Var = {a}
    BlockVar = {}
    Member = {m}
    Kinds = {"class", "vector", "struct"}
    Features = {"callFromC", "noMain", "single", "error"}
    MaxBlocks = 0
    MaxCascade = 3
INVARIANT ScriptSeesNoDeletedObject
PROPERTIES NoVariableOutlivesItsCall UnwindingEnds
