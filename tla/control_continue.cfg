SPECIFICATION Spec
CONSTANTS
  CaseValues = {1}
  Admit = {"continue"}
  MaxAtoms = 3
  MaxNest = 2
PROPERTY LegalAccepted
CHECK_DEADLOCK FALSE
