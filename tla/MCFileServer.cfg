SPECIFICATION Spec
CONSTANTS
  Handles = {h1, h2, h3}
  NoHandle = NoHandle
  MaxOpen = 2
  direct1 = direct1
  direct2 = direct2
  fallback = fallback
  name1 = name1
  name2 = name2
  Names <- MCNames
  Paths <- MCPaths
  Where <- MCWhere
  Creatable <- MCCreatable
  MaxSize = 1
  Closed = Closed
  NoPath = NoPath
  KErrNone = KErrNone
  KErrNotFound = KErrNotFound
  KErrNoMemory = KErrNoMemory
SYMMETRY MCSymmetry
INVARIANT
  TypeOK
  OneSlotPerHandle
PROPERTIES
  ImplementsCursors
  CreatedIsOpened
