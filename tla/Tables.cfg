CONSTANTS
  HASH_TABLE_SIZE = 2
  Addresses = {0, 1, 2}
  MAX_CHAIN = 3
  Lines = {10, 21}
  NoMapping = NoMapping
  Names = {"START", "LOOP"}
  Hash <- MCHash
  NoName = ""
  NoSymbol = NoSymbol
SPECIFICATION TablesSpec
INVARIANTS
  NodesAreInTheirChains
  OneNodePerName
PROPERTIES
  LatestLineIsFound
  FirstDefinitionIsFound
CHECK_DEADLOCK FALSE
