SPECIFICATION Spec
CONSTANTS
  W = 3
  Inputs <- MCInputs
  Fuel = 120
  Admit = {}
  Programs <- AllPrograms
INVARIANTS
  TypeOK
  SameMeaning
  DeclaredFirst
  ConstantsHold
  LiveEnough
  BlocksCover
  Settles
CHECK_DEADLOCK FALSE
