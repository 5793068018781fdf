CONSTANTS
  Keys = {k1, k2, k3, k4, k5, k6}
  Values = {1, 2, 3}
  GrowSize = 3
  NoEntry = NoEntry
SPECIFICATION HeapSpec
SYMMETRY KeySymmetry
PROPERTY HeapCorrect
