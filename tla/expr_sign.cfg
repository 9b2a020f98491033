CONSTANTS
  Compile <- Compiled
  Constants <- MCConstants
  Globals <- MCGlobals
  FunctionNames <- MCFunctions
  ClassNames <- MCClasses
  Vectors <- MCVectors
  Structs <- MCStructs
  Body <- MCBody
  Source <- MCSignedSums
  ValueOf <- MCValueOf
  Variables <- MCVariables
  Objects <- MCObjects
  NewNames <- MCNewNames
SPECIFICATION Spec
INVARIANT RunsAsCpp
CHECK_DEADLOCK FALSE
