SPECIFICATION PSpec
CONSTANTS
  W = 3
  Half = 4
  Registers = {0, 1}
  Logic <- MCLogic
  Program <- Plain
  Products <- MCProducts
  NoCompare = NoCompare
INVARIANTS
  TypeOK
  ConditionsCompare
  ProductsImplementArm
