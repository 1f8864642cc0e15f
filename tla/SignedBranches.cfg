SPECIFICATION Spec
CONSTANTS
  Operands <- MCOperands
  Sizes = {0, 1, 2}
  StatusRegisters <- MCStatusRegisters
INVARIANT SignedBranches
CHECK_DEADLOCK FALSE
