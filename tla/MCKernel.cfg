SPECIFICATION Spec
CONSTANTS
  Functions = {f, g}
  Import = Import
  Stray = Stray
  Objects = {o1, o2}
  Null = Null
  MaxDepth = 3
  StackLen = 2
  Window = 2
  MaxTraps = 2
  MaxCleanup = 3
  MaxPush = 3
  Reasons <- MCReasons
  ExitCodes = {0}
CHECK_DEADLOCK FALSE
INVARIANTS
  TypeOK
  CleanupIsPromised
  CleanupHoldsLiveObjects
  RunawayIsCaught
  ReportShowsCallers
PROPERTY
  LeaveFreesWhatWasPushed
