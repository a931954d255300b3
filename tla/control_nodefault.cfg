SPECIFICATION Spec
CONSTANTS
  CaseValues = {1}
  Admit = {"nodefault"}
  MaxAtoms = 3
  MaxNest = 2
INVARIANT JumpsLand
CHECK_DEADLOCK FALSE
