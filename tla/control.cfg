SPECIFICATION Spec
CONSTANTS
  CaseValues = {1, 2}
  Admit = {}
  MaxAtoms = 4
  MaxNest = 2
INVARIANTS
  TypeOK
  ContextsMirrorNesting
  JumpsLand
  SameFlow
PROPERTY LegalAccepted
CHECK_DEADLOCK FALSE
