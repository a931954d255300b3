SPECIFICATION Spec
CONSTANTS
  W = 3
  Inputs <- MCInputs
  Fuel = 120
  Admit = {"key"}
  Programs <- Repeated
INVARIANT
  SameMeaning
CHECK_DEADLOCK FALSE
