SPECIFICATION DiffSpec
CONSTANTS
  NWords = 6
  NReg = 3
  Fns <- MCFns
  Alu <- MCAlu
  Decode <- Common
  Device = {4}
  Unmapped = {5}
  RESET_PC = 0
  Programs <- AllPrograms
INVARIANTS NeverMismatch SkipIsForDevice ReferenceSound
PROPERTY ImplementsNemu
CHECK_DEADLOCK FALSE
