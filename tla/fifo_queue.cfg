SPECIFICATION FixedSpec
CONSTANTS
  Last = 6
  WordBytes = 4
  Sizes = {2, 8, 12, 16}
  Data = {1, 2}
  Wrap32 = 1000
  Null = Null
  Words = 7
  MaxElSize = 16
  Trailer = 1001
  Ones = 1002
  MaxCount = 7
INVARIANT PointersAgree
PROPERTY FixedQueueSpec
