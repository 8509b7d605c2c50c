CONSTANTS
  Byte <- MCByte
  PageSize = 8
  PageCount = 10
  Segments = 2
  RamPages = 2
  Exp1Page = 2
  Exp1Pages = 1
  ScratchpadPage = 3
  BiosPage = 8
  BiosPages = 1
  SCRATCHPAD_SIZE = 4
  IO_GPU_START = 32
  Windows <- MCWindows
  IO_MEMCTRL_3_START = 152
  CacheCtrl = 152
  Trampolines = {0}
  JR_RA <- MCJrRa
  BiosImages <- MCBiosImages
  Exes <- MCExes
  Programs <- MCPrograms
  Loads <- MCLoads
  Stores <- MCStores
  Fetches <- MCFetches
  Timers = {48}
  Garbage = {6}
  VramW = 2
  VramH = 2
  Half <- MCHalf
  CmdUnit = 256
  HalfMod = 65536
  CountMod = 2
  Decode <- MCDecode
  Words <- MCWords
  Pixels <- MCWords
  Directions = {0, 1, 2, 3}
SPECIFICATION IoSpec
INVARIANTS
  BusTypeOK
  DisplayTypeOK
  FetchCacheCoherent
  OutputSizeFollows
  StatusMirrorsMode
PROPERTIES
  ImplementsFlatMemory
  BiosChangesBehindScratchpad
