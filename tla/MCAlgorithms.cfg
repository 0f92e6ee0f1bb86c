SPECIFICATION Spec
CONSTANTS
  SHW = 2
  SraAmounts <- InRange
  ByteSize = 2
  NWords = 2
  Alphabet = {"2", "-", "*", "/", "(", ")", "=="}
  MaxLen = 7
  W = 4
INVARIANTS AluMatchesNemu LanesMatchNemu EvaluatesAsC
CHECK_DEADLOCK FALSE
