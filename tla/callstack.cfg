SPECIFICATION Spec
CONSTANTS
    Main = main
    ScriptFunction = {f}
    NativeFunction = {n}
    Params <- MCParams
    Locals <- MCLocals
    MaxCalls = 3
    MaxScopes = 4
    StackSize = 7
    StringSlots = 3
    MaxDepth = 3
    MaxOperands = 2
INVARIANTS
    TypeOK
    LevelsMatchFrames
    ScopesBelongToFrames
    DumpedFunctionNeverRuns
    FramesKeepApart
    StringsOutliveCalls
    CancelledRunFails
