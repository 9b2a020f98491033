SPECIFICATION Spec
CONSTANTS
    Class = {a, b, c, main}
    Main = main
    Globals <- MCGlobals
    NativeSources <- MCNativeSources
    ScriptSources <- MCScriptSources
    Extensions <- MCExtensions
    Site <- MCSite
    Arguments <- MCArguments
    MaxExtended = 1
SYMMETRY Classes
INVARIANTS
    OperatorRunsAgain
CHECK_DEADLOCK FALSE
