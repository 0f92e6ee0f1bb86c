SPECIFICATION AluSpec
CONSTANTS
  SHW = 2
  SraAmounts <- AllAmounts
INVARIANT AluMatchesNemu
