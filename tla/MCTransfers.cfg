SPECIFICATION DSpec
CONSTANTS
  Base = 4
  Memory <- MCMemory
  Registers <- MCRegisters
  Sp = 13
  Program <- MCProgram
  TStarts <- MCStarts
  MaxSteps = 2
  Places = {4, 16}
  Room = 12
  Literals <- MCLiterals
  Texts <- MCTexts
  Lengths = {0, 3}
  DStarts <- MCDStarts
  MaxUses = 3
  Nothing = Nothing
CHECK_DEADLOCK FALSE
PROPERTIES
  TransfersImplementArm
  ImplementsStrings
