SPECIFICATION Spec
CONSTANTS
    a = a
    f = f
    g = g
    n = n
    v = v
    Names <- MCNames
    NoName = NoName
    Sources <- MCSources
    NativeFuns = {n}
    NativeVars = {v}
    Features = {}
    MaxCalls = 4
    MaxNodes = 4
    MaxSaved = 2
INVARIANTS
    TypeOK
    LinksAreSound
    RunningCodeIsReady
    VariablesHoldNoJunk
    EntriesAreRegistered
    CompiledOnce
PROPERTY GlobalsSurvive
