CONSTANTS
  Compile <- Compiled
  Constants <- MCConstants
  Globals <- MCGlobals
  FunctionNames <- MCFunctions
  ClassNames <- MCClasses
  Vectors <- MCVectors
  Structs <- MCStructs
  Body <- MCBody
  Source <- MCSource
  ValueOf <- MCValueOf
  Variables <- MCVariables
  Objects <- MCObjects
  NewNames <- MCNewNames
SPECIFICATION Spec
INVARIANTS PlainRunsAsCpp TreeKeepsTokens OneValueLeft LongestIsRead
CHECK_DEADLOCK FALSE
