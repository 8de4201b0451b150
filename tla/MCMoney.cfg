SPECIFICATION Spec
CONSTANTS
  Base = 3
  MaxInt = 15
  Codes <- MCCodes
  WellFormed <- MCWellFormed
  Texts <- MCTexts
  Operands <- MCOperands
INVARIANT WritingIsExact
INVARIANT ReadingIsExact
PROPERTY ArithmeticIsExact
