SPECIFICATION Spec
CONSTANTS
  StructDefs <- Structs
  Names = {"x", "y"}
  Functions <- FunctionNames
  GlobalTypes <- Globals
  ParamTypes <- Params
  LocalTypes <- Locals
  Texts = {"x"}
  Letters = {"x"}
  Numbers = {}
  Indices <- Brackets
  MaxGlobals = 1
  MaxParams = 1
  MaxLocals = 2
  MaxBlocks = 1
  MaxEntered = 1
  MaxUse = 3
  MaxReach = 6
  Admit = {}
INVARIANTS TypeOK NamesResolve HomesApart ElementAddressed LoadedAsDeclared
CHECK_DEADLOCK FALSE
