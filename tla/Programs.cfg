SPECIFICATION FairExecSpec
CONSTANTS
  MEMORY_SIZE = 64
  INITIAL_CAPACITY = 16
  MAX_CHANGES = 64
  WriteAddresses = {}
  Bytes = {}
  WordValues = {}
  Longs = {}
  MAX_EXECUTION_CYCLES = 28
  LoadedMemories <- MCLoaded
  StartAddresses <- MCStart
  AllocAnswers = {TRUE, FALSE}
INVARIANT ExecTypeOK
PROPERTIES
  PcFollowsInstruction
  FlagFrame
  DataRegisterFrame
  FlagsTellTheChange
  LogAppendOnly
  StoresOneOperand
  StackStaysAligned
  PopReturnsPushed
  MoveOntoItself
  EveryRunEnds
CHECK_DEADLOCK FALSE
