SPECIFICATION Spec
CONSTANTS
  MemoryCards = {c1}
  Emulators = {e1}
  SdTypes = {"v1", "mmc", "hc"}
  Chunks = 2
  SectorCount = 2
  MisreadCounts = {3}
  FileSize = 3
  MaxFaults = 1
  ReadyPolls = 2
  IoBlocks = 2
  MaxCount = 3
  AddressSpace = 1024
INVARIANTS TypeOK PageIsAsked GlobalsFit ScanFaithful SectorsAsAsked FileInOrder
PROPERTY EveryOperationReturns
