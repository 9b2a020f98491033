CHECK_DEADLOCK FALSE
SPECIFICATION Spec
CONSTANTS
    MainPrograms <- InMain
    FunctionPrograms <- InFunction
    Nodes <- AllNodes
    QuietNodes <- MainNodes
INVARIANTS TypeOK ScopesFollowBlocks
PROPERTIES FollowsProgram NeverSpins
