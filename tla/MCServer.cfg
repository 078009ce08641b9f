SPECIFICATION Spec
CONSTANTS
  None = None
  ExtraPrefixes <- MCExtraPrefixes
  AddrMax = 11
  FlashStart = 4
  SectorSize = 3
  Environments <- EnvironmentType
  Requests <- MCRequests
CHECK_DEADLOCK FALSE
INVARIANTS
  TypeOK
  ToolsHaveBackend
  CaptureSharesPort
  AcceptedInside
  ListsAgree
  LinesLimited
  EraseCoversRange
