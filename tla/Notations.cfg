CONSTANTS
  AnToken <- MCAnToken
  DnToken <- MCDnToken
  Decimal <- MCDecimal
  Hexadecimal <- MCHexadecimal
  Labels = {"X"}
  RegisterLike = {"D1X"}
  Operands <- MCOperandSet
SPECIFICATION Spec
INVARIANTS EveryNotationIsRead
CHECK_DEADLOCK FALSE
