SPECIFICATION FairSpec
CONSTANTS
  Words = 11
  WordBytes = 4
  Sizes = {1, 4, 14, 17}
  MaxElSize = 16
  Data = {1, 2}
  Trailer = 1001
  Ones = 1002
  Wrap32 = 1000
  MaxCount = 9
  Null = Null
INVARIANTS TypeOK ElementsKept
PROPERTIES QueueSpec Drains
