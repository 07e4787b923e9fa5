SPECIFICATION Spec
CONSTANTS
  Images <- MCImages
  Functions <- MCFunctions
  Imports <- MCImports
  Values <- MCValues
  Host = Host
  Done = Done
  MaxFrames = 4
CHECK_DEADLOCK FALSE
PROPERTY
  ImplementsArm
