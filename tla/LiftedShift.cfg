SPECIFICATION Spec
CONSTANTS
  W = 4
  Half = 8
  Registers = {0, 1}
  Logic <- MCLogic
  Program <- Shifting
  Products = {}
  NoCompare = NoCompare
INVARIANT
  ImplementsArm
