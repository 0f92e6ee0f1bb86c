SPECIFICATION FairSpec
CONSTANTS
  NWords = 6
  NReg = 3
  Fns <- MCFns
  Alu <- MCAlu
  Decode <- CoreOnly
  Device = {4}
  Unmapped = {5}
  RESET_PC = 0
  Programs <- AllPrograms
INVARIANTS TypeOK OneInFlight WritebackCoherent
PROPERTIES AxiRequestsHeld AlwaysCompletes
CHECK_DEADLOCK FALSE
