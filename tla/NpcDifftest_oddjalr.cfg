SPECIFICATION DiffSpec
CONSTANTS
  NWords = 6
  NReg = 3
  Fns <- MCFns
  Alu <- MCAlu
  Decode <- OddJalr
  Device = {4}
  Unmapped = {5}
  RESET_PC = 0
  Programs <- OddPrograms
INVARIANT NeverMismatch
CHECK_DEADLOCK FALSE
