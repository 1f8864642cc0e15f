SPECIFICATION MemSpec
CONSTANTS
  MEMORY_SIZE = 4
  INITIAL_CAPACITY = 4
  MAX_CHANGES = 7
  WriteAddresses = {1, 7}
  Bytes = {0, 9}
  WordValues = {513, 768}
  Longs <- MCLongs
INVARIANTS
  MemTypeOK
  BufferFits
  LogExplainsMemory
  LogUndoesMemory
PROPERTIES
  WritesReadBack
  LogAppendOnly
CHECK_DEADLOCK FALSE
