CONSTANTS
  AnToken <- MCAnToken
  DnToken <- MCDnToken
  Decimal <- MCDecimal
  Hexadecimal <- MCHexadecimal
  Labels = {"X"}
  RegisterLike = {"D1X"}
  Operands <- MCOperandSet
SPECIFICATION Spec
INVARIANTS ReadsWhatWasWritten AcceptsNotationsOnly
CHECK_DEADLOCK FALSE
