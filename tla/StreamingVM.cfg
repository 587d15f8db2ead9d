\* Two-column lines, and more rows than the pipe to the child takes; a packet is
\* full after two rows.
SPECIFICATION StreamSpec
CONSTANTS
  Columns <- TwoColumns
  CellSize <- Sizes
  StringLength <- Lengths
  Readable = {1, 2}
  Null = Null
  Tails = {}
  MaxRows = 2
  MaxVarDatasize = 12
  InCapacity = 1
  OutCapacity = 2
  ErrCapacity = 1
  ErrLimit = 1
  MaxFields = 6
  MaxErrors = 2
INVARIANTS DeliversEveryLine FailureSurfaces
PROPERTY RunEnds
CHECK_DEADLOCK FALSE
