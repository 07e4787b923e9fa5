SPECIFICATION Spec
CONSTANTS
  Word = 160
  Base = 12
  Size = 68
  Requests = {0, 5, 20}
INVARIANTS
  TypeOK
  WalkVisitsEveryBlock
  LiveCoversRequest
PROPERTIES
  ZeroedReadsZero
  ImplementsAllocator
