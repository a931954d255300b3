SPECIFICATION Spec
CONSTANTS
  x = x
  y = y
  z = z
  k0 = k0
  k1 = k1
  none = none
  Vars <- MCVars
  Shared <- MCShared
  Addressable <- MCAddressable
  AddrOf <- MCAddrOf
  Lits <- MCLits
  LitVal <- MCLitVal
  Zero = k0
  None = none
  Value <- MCValue
  Arith <- MCArith
  Rel <- MCRel
  ALU <- MCALU
  Gen <- MCGen
  R_IO = 15
  Admit = {}
VIEW MachineView
INVARIANTS
  TypeOK
  UniqueHolder
  DirtyIsVariable
  CleanCoherent
PROPERTY Implements
