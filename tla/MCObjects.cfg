SPECIFICATION OSpec
CONSTANTS
  Addresses = {1, 2, 3, 4, 6, 7, 8}
  Handler <- MCHandler
  Unregistered = Unregistered
  FirstCap = 2
  MaxTable = 4
  Methods <- MCMethods
  Hle = Hle
  Fbs = Fbs
  Nothing = Nothing
  MaxFailed = 2
  f1 = f1
  f2 = f2
  f3 = f3
INVARIANTS
  OTypeOK
  SearchBrackets
  ChaseStaysValid
  RegisteredOnce
PROPERTIES
  VirtualCallsResolve
  ImplementsDirectory
