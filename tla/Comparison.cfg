SPECIFICATION Spec
CONSTANTS
  Operands <- MCOperands
  Sizes = {0, 1, 2}
  StatusRegisters <- MCStatusRegisters
INVARIANTS
  TypeOK
  UnsignedBranches
  SignedBranchesOfLikeSigns
  AdditionBranches
  LogicBranches
CHECK_DEADLOCK FALSE
