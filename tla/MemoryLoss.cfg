SPECIFICATION MemSpec
CONSTANTS
  MEMORY_SIZE = 4
  INITIAL_CAPACITY = 4
  MAX_CHANGES = 7
  WriteAddresses = {1, 7}
  Bytes = {0, 9}
  WordValues = {513, 768}
  Longs <- MCLongs
INVARIANT LossIsNotFatal
CHECK_DEADLOCK FALSE
