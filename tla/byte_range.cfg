SPECIFICATION Spec
CONSTANTS
  MaxLength = 6  MaxOffset = 8
  Lengths <- MCLengths
  Offsets <- MCOffsets
  NoRange = NoRange
  Unparsed = Unparsed
CHECK_DEADLOCK FALSE
INVARIANTS
  IndInv
  SliceInBounds
  WithinRequest
  ClosedRangesServed
