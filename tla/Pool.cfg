CONSTANTS
  MaxLength = 2097152
  MaxArrays = 2
  Handles = {h1, h2, h3}
  Amounts = {16, 600000, 1100000, 3000000}
  Sizes <- BoundarySizes
  WrapSizes = {15, 1048576}
  Moves = TRUE
  MaxAllocs = 3
SPECIFICATION Spec
INVARIANTS Exclusive Balanced TakenSlotsEmpty SmallestFit
SYMMETRY Symmetry
CHECK_DEADLOCK FALSE
