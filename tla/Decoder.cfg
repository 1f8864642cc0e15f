SPECIFICATION DecoderSpec
CONSTANT Opcodes <- MCOpcodes
INVARIANTS
  SearchFindsHandler
  OneEntryMatches
CHECK_DEADLOCK FALSE
