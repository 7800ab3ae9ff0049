SPECIFICATION LoopSpec
CONSTANTS
  Word = 16
  MaxExponent = 33
  Exponents <- MCExponents
INVARIANTS AnswerIsPower
PROPERTY Answers
CHECK_DEADLOCK FALSE
