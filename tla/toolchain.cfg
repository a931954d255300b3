CONSTANTS
  ByteValues = 16
  MEMMAX = 4096
  LABNUM = 20
  Fuel = 24
  Programs <- AllPrograms
  Sources <- AllSources
  Admit = {}
SPECIFICATION Spec
INVARIANTS TypeOK Accepted LabelsAgree Tame
PROPERTIES Implements Finishes
