SPECIFICATION Spec
CONSTANTS
  Value <- MCValue
  s1 = s1
  s2 = s2
  exit = exit
  Sites = {s1, s2}
  Exit = exit
  STACK = 1
  StackTop = 10
  MaxDepth = 3
  MaxVars = 2
PROPERTY FormalsInOrder
CHECK_DEADLOCK FALSE
