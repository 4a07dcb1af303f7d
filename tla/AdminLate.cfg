SPECIFICATION Spec
CONSTANTS
  Addr = {0, 1, 2, 3}
  AdminMAC = 0
  QueryMAC = 1
  NormalMAC = 2
  FilterDepth = 2
  PktBytes = 12
  ItemBytes = 2
  Tag = {0}
  NoTag = 0
  Hash <- MCHash
  Zero = 0
  bswap_16 <- MCbswap_16
  DefaultList <- MCDefaultList
  DefaultText <- MCDefaultText
  Edited = {"srcPort", "dns"}
  Typed <- MCTyped
  Texts <- MCTexts
  Names = {"admin.bin", "mine"}
  Packets <- MCPackets
  Short = short
  BoardFilters <- MCBuiltFilters
  TestFilters <- MCTestFilters
  Scratch = "admin.bin"
  Sessions <- MCLateSessions
  MaxTestPkts = 1
  MaxLooks = 1
INVARIANT ConfirmingAnswerIsNew
CHECK_DEADLOCK FALSE
