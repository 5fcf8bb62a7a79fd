SPECIFICATION UpdateSpec
CONSTANTS
  segment_size = 3
  Sizes = {1, 4}
  MaxLength = 10
  MaxWrites = 2
  MaxCollisions = 0
INVARIANT WrittenAsAsked
CHECK_DEADLOCK FALSE
