SPECIFICATION BitmapSpec
CONSTANTS
  Bitmaps = {b1, b2, b3}
  NoKey = NoKey
  MaxBm = 2
  Word = 512
  Largest = 400
  Sizes <- MCSizes
  Modes = {4, 11}
  LoadSize <- MCLoadSize
  MaxBufs = 2
  MaxInk = 2
SYMMETRY MCSymmetry
INVARIANTS
  BitmapTypeOK
  OneEntryPerBitmap
  BufferFits
  PresentStaysInside
