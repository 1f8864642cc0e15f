SPECIFICATION SimSpec
CONSTANTS
  MEMORY_SIZE = 128
  INITIAL_CAPACITY = 32
  MAX_CHANGES = 64
  WriteAddresses = {}
  Bytes = {}
  WordValues = {}
  Longs = {}
  MAX_EXECUTION_CYCLES = 9
  LoadedMemories = {}
  StartAddresses = {}
  AllocAnswers = {TRUE}
  HASH_TABLE_SIZE = 2
  Addresses <- Cell
  MAX_CHAIN = 8
  Lines = {1, 2, 3, 4, 5, 6}
  NoMapping = NoMapping
  Names <- MCNames
  Hash <- MCHash
  NoName = ""
  NoSymbol = NoSymbol
  AnToken <- MCAnToken
  DnToken <- MCDnToken
  Decimal <- MCDecimal
  Hexadecimal <- MCHexadecimal
  Labels = {"DATA", "LOOP", "NOWHERE"}
  RegisterLike = {"D1X"}
  StrayAddresses = {8}
  CommandLines <- MCCommandLines
  NoFile = NoFile
  DEFAULT_START = 48
INVARIANT LoadedWhereAsked
CHECK_DEADLOCK FALSE
