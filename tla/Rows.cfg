\* Three columns of two types; a packet is full after one long row or
\* after two.
SPECIFICATION RowsSpec
CONSTANTS
  Columns <- ThreeColumns
  CellSize <- Sizes
  StringLength <- Lengths
  Null = Null
  Tails = {"rest"}
  MaxRows = 3
  MaxVarDatasize = 10
  MaxEmits = 2
  TailRows = 1
INVARIANTS
  InputFaithful
  OutputFaithful
  EmitIsBounded
  ForwardsEveryRow
